---- MODULE Spec2Model ----
(***************************************************************************)
(* State-machine model of the LAN video-conferencing relay server          *)
(* (src/server.py) together with the parts of the client (src/client.py)   *)
(* that produce its inputs: frame fragmentation and the control stream.    *)
(*                                                                         *)
(* Units.  Byte strings are sequences of small integers.  A video payload  *)
(* unit stands for 30000 bytes, so MAX_UDP_PAYLOAD (60000 bytes) is 2      *)
(* units; a file-body unit stands for 512 bytes, so the 1024-byte relay    *)
(* chunk is 2 units.  Time is counted in whole seconds.                    *)
(***************************************************************************)
EXTENDS Integers, Sequences, FiniteSets, TLC

(***************************************************************************)
(* Bounds of the model.                                                    *)
(***************************************************************************)
\* longest video payload a client serialises, in payload units
MaxPayloadLen == 5
\* number of frames all clients together put on the wire
MaxFrames == 1
\* number of datagrams with an arbitrary header put on the wire
MaxStray == 1
\* the clock stops advancing here
MaxTime == 3
\* number of handshakes (joins and re-joins) accepted in a run
MaxJoins == 4
\* number of application messages all clients together send
MaxSends == 2
\* largest file body, in body units
MaxFileSize == 3

(***************************************************************************)
(* Program constants.                                                      *)
(***************************************************************************)
\* server.py:18 MAX_UDP_PAYLOAD = 60000 bytes = 2 payload units
MAX_UDP_PAYLOAD == 2
\* server.py:20 FRAME_TTL = 2.0 seconds
FRAME_TTL == 2
\* server.py:69 time.sleep(1.0) between two sweeps
SWEEP_INTERVAL == 1
\* server.py:116 min(1024, remaining): 1024 bytes = 2 body units
FILE_CHUNK == 2
\* server.py:16 VIDEO_HDR_FMT = ">IHH": total and index are 16-bit fields, so
\* struct.pack takes a total of at most 65535; scaled down to 3
HDR_MAX_TOTAL == 3
\* server.py:164 recvfrom(MAX_UDP_PAYLOAD + VIDEO_HDR_SIZE + 64): a part of
\* up to 64 bytes more than MAX_UDP_PAYLOAD is taken; scaled up to 1 unit
RECV_SLACK == 1

(***************************************************************************)
(* The world outside the server: connections, their addresses, meetings.   *)
(* c1 and c2 come from the same host (or from behind the same NAT), c3     *)
(* from another one.                                                       *)
(***************************************************************************)
Conns == {"c1", "c2", "c3"}

MeetIds == {"m1", "m2"}

\* Python's None, where a dict.get finds nothing
None == "None"

\* addr[0] of the accepted TCP connection
IpOf(c) == IF c = "c3" THEN "y" ELSE "x"

\* addr of the accepted TCP connection: (ip, ephemeral port)
TcpAddr(c) == <<IpOf(c), CASE c = "c1" -> 101 [] c = "c2" -> 102 [] OTHER -> 103>>

\* the UDP port the client bound for video and reports in its handshake
VidPortOf(c) == CASE c = "c1" -> 1 [] c = "c2" -> 2 [] OTHER -> 1

\* the UDP port the client bound for audio and reports in its handshake
AudPortOf(c) == CASE c = "c1" -> 11 [] c = "c2" -> 12 [] OTHER -> 11

UserOf(c) == CASE c = "c1" -> "u1" [] c = "c2" -> "u2" [] OTHER -> "u3"

\* the source address of the datagrams client c sends from its video socket
VideoAddr(c) == <<IpOf(c), VidPortOf(c)>>

AudioAddr(c) == <<IpOf(c), AudPortOf(c)>>

\* the handshake client c sends when it joins meeting m
HandshakeOf(c, m) ==
  [msg_type |-> "handshake", username |-> UserOf(c), meet_id |-> m,
   video_udp_port |-> VidPortOf(c), audio_udp_port |-> AudPortOf(c)]

\* first messages that are not the handshake of client.py: one without
\* the meet_id field, one without the username field, and the first bytes
\* of a message that is never completed
BadHandshakes(c) ==
  {[msg_type |-> "handshake", username |-> UserOf(c),
    video_udp_port |-> VidPortOf(c), audio_udp_port |-> AudPortOf(c)],
   [msg_type |-> "handshake", meet_id |-> "m1",
    video_udp_port |-> VidPortOf(c), audio_udp_port |-> AudPortOf(c)],
   [msg_type |-> "partial"]}

\* info.get(key): None when the dict has no such key
Field(info, key) == IF key \in DOMAIN info THEN info[key] ELSE None

\* Python truthiness of a meeting id (`if meet_id:`, `if not meet:`)
Truthy(x) == x # None /\ x # ""

\* Python truthiness of a port (`if vid_port:`); 0 also stands for a
\* handshake without the field
PortGiven(port) == port # 0

Min(a, b) == IF a < b THEN a ELSE b

(***************************************************************************)
(* Python dicts keep insertion order.  A dict whose order the code can     *)
(* observe is a sequence of [k, v] entries.                                *)
(***************************************************************************)
DictKeys(d) == {d[i].k : i \in 1..Len(d)}

DictGet(d, key) == d[CHOOSE i \in 1..Len(d) : d[i].k = key].v

\* d[key] = val: an existing key keeps its place, a new key goes last
DictSet(d, key, val) ==
  IF key \in DictKeys(d)
  THEN [i \in 1..Len(d) |-> IF d[i].k = key THEN [k |-> key, v |-> val] ELSE d[i]]
  ELSE Append(d, [k |-> key, v |-> val])

RECURSIVE SeqWithout(_, _)
\* the entries of d whose key is not `key`, in order
SeqWithout(d, key) ==
  IF d = <<>> THEN <<>>
  ELSE IF Head(d).k = key THEN SeqWithout(Tail(d), key)
       ELSE <<Head(d)>> \o SeqWithout(Tail(d), key)

\* del d[key]
DictDel(d, key) == SeqWithout(d, key)

\* a function with one key removed
FnDel(f, key) == [x \in DOMAIN f \ {key} |-> f[x]]

\* a function with one key set
FnSet(f, key, val) == [x \in DOMAIN f \cup {key} |-> IF x = key THEN val ELSE f[x]]

(***************************************************************************)
(* Fragmentation of a serialised frame by the client.                      *)
(***************************************************************************)
\* total = (len(data)+max_payload-1)//max_payload
NumFragments(data) == (Len(data) + MAX_UDP_PAYLOAD - 1) \div MAX_UDP_PAYLOAD

\* a slice that forgets the start offset
FragmentFromStart(data, idx) == SubSeq(data, 1, Min(MAX_UDP_PAYLOAD, Len(data)))

\* part = data[start:start+max_payload] with start = idx*max_payload
FragmentOf(data, idx) ==
  SubSeq(data, idx * MAX_UDP_PAYLOAD + 1,
         Min(idx * MAX_UDP_PAYLOAD + MAX_UDP_PAYLOAD, Len(data)))

\* the datagrams of one frame: header (frame id, total, index) and part
FrameDatagrams(src, fid, data) ==
  {[src |-> src, fid |-> fid, total |-> NumFragments(data), idx |-> i,
    data |-> FragmentOf(data, i)] : i \in 0..(NumFragments(data) - 1)}

\* the longest part the listener takes from one datagram (line 164)
RecvPartMax == MAX_UDP_PAYLOAD + RECV_SLACK

\* a frame cut into parts of that length by a program other than the client
BigTotal(data) == (Len(data) + RecvPartMax - 1) \div RecvPartMax

BigFragment(data, idx) ==
  SubSeq(data, idx * RecvPartMax + 1, Min(idx * RecvPartMax + RecvPartMax, Len(data)))

BigDatagrams(src, fid, data) ==
  {[src |-> src, fid |-> fid, total |-> BigTotal(data), idx |-> i,
    data |-> BigFragment(data, i)] : i \in 0..(BigTotal(data) - 1)}

\* such frames: one part, and as many parts as the header can count
BigPayloads == {[i \in 1..n |-> i] : n \in {RecvPartMax, RecvPartMax * HDR_MAX_TOTAL}}

\* the serialised frames clients send: one full fragment, a full and a
\* partial one, and the longest payload.  The units of a frame are pairwise
\* different, so that a reordering of its fragments shows.
PayloadLens == {MAX_UDP_PAYLOAD, MAX_UDP_PAYLOAD + 1, MaxPayloadLen}

Payloads == {[i \in 1..n |-> i] : n \in PayloadLens}

(***************************************************************************)
(* State.                                                                  *)
(***************************************************************************)
VARIABLES
  \* server.py:24-28, the registry guarded by dict_lock
  meet_general_clients,  \* meet_id -> list of (conn, addr, username)
  meet_video_addrs,      \* meet_id -> set of (ip, port), in insertion order
  meet_audio_addrs,      \* meet_id -> set of (ip, port), in insertion order
  udp_to_meet,           \* (ip, port) -> meet_id
  udp_to_user,           \* (ip, port) -> username
  \* server.py:32, the fragment buffers guarded by reassembly_lock
  video_reassembly,      \* (sender, frame_id) -> [parts, total, ts]
  \* time.time() in seconds, and the time the sweeper's sleep ends
  now,
  next_sweep,
  \* video_udp_listener: where it is, and its locals pkt/sender/key,
  \* payload_bytes and meet
  vl_pc,
  vl_pkt,
  vl_payload,
  vl_meet,
  \* datagrams on their way to the video port, and the datagrams the
  \* listener sent in its latest relay pass
  video_net,
  video_sent,
  \* handle_general, one thread per connection: where it is, and its locals
  pc,
  meet_id,
  msg,
  peers,
  remaining,
  \* the bytes each client has written that its handler has not read yet,
  \* and whether the client has closed its end
  inq,
  eof,
  \* every sendall issued on each connection's socket, in order
  sock_log,
  \* the network: the UDP addresses a sendto to which raises at the
  \* moment, and the datagrams the audio listener sent for the latest
  \* datagram it received
  unreachable,
  audio_sent,
  \* each client's frame counter fid, and the run's counters
  client_fid,
  n_frames,
  n_stray,
  n_joins,
  n_sends,
  \* server.py:29 and 33: who holds dict_lock and reassembly_lock
  dict_lock,
  reassembly_lock,
  \* the line each thread of the server is at; the video listener's copy
  \* of the peers (line 196)
  t_pc,
  vl_peers,
  \* server.py:22, the flag `running`, and whether main has returned
  running,
  main_done

regVars == <<meet_general_clients, meet_video_addrs, meet_audio_addrs,
             udp_to_meet, udp_to_user>>

videoVars == <<video_reassembly, vl_pc, vl_pkt, vl_payload, vl_meet,
               video_net, video_sent, client_fid, n_frames, n_stray>>

timeVars == <<now, next_sweep>>

netVars == <<unreachable, audio_sent>>

connVars == <<pc, meet_id, inq, eof, n_joins>>

chatVars == <<msg, peers, remaining, sock_log, n_sends>>

threadVars == <<dict_lock, reassembly_lock, t_pc, vl_peers, running, main_done>>

vars == <<regVars, videoVars, timeVars, netVars, connVars, chatVars, threadVars>>

\* the connections whose handler threads are followed line by line, and
\* the threads main starts (lines 264-267) with the handlers the accept
\* loop starts (line 240)
HandlerThreads == {"c1", "c3"}

Threads == HandlerThreads \cup {"accept", "sweeper", "video", "audio"}

\* a lock nobody holds
Free == "free"

\* where a thread begins: the `while running` of its loop, and for a
\* handler the connection that has not been accepted yet
StartOf(t) ==
  CASE t = "accept" -> "l237"
    [] t = "sweeper" -> "l60"
    [] t = "video" -> "l162"
    [] t = "audio" -> "l217"
    [] OTHER -> "unborn"

\* a datagram the listener has not received yet
NoPkt == [src |-> <<"", 0>>, fid |-> 0, total |-> 0, idx |-> 0, data |-> <<>>]

NoMsg == [msg_type |-> "none"]

\* nothing received by the audio listener yet
NoAudio == [src |-> <<"", 0>>, data |-> <<>>, dsts |-> {}]

Init ==
  /\ meet_general_clients = <<>>
  /\ meet_video_addrs = <<>>
  /\ meet_audio_addrs = <<>>
  /\ udp_to_meet = <<>>
  /\ udp_to_user = <<>>
  /\ video_reassembly = <<>>
  /\ now = 0
  /\ next_sweep = 0
  /\ vl_pc = "idle"
  /\ vl_pkt = NoPkt
  /\ vl_payload = <<>>
  /\ vl_meet = None
  /\ video_net = {}
  /\ video_sent = {}
  /\ unreachable = {}
  /\ audio_sent = NoAudio
  /\ pc = [c \in Conns |-> "new"]
  /\ meet_id = [c \in Conns |-> None]
  /\ msg = [c \in Conns |-> NoMsg]
  /\ peers = [c \in Conns |-> <<>>]
  /\ remaining = [c \in Conns |-> 0]
  /\ inq = [c \in Conns |-> <<>>]
  /\ eof = [c \in Conns |-> FALSE]
  /\ sock_log = [c \in Conns |-> <<>>]
  /\ client_fid = [c \in Conns |-> 0]
  /\ n_frames = 0
  /\ n_stray = 0
  /\ n_joins = 0
  /\ n_sends = 0
  /\ dict_lock = Free
  /\ reassembly_lock = Free
  /\ t_pc = [t \in Threads |-> StartOf(t)]
  /\ vl_peers = {}
  /\ running = TRUE
  /\ main_done = FALSE

(***************************************************************************)
(* The registry: registration (handle_general, lines 87-94) and            *)
(* deregistration (its finally block, lines 130-153).                      *)
(***************************************************************************)
\* meet_general_clients.setdefault(meet_id, []).append((conn, addr, username))
GeneralAfterJoin(mgc, mid, c, user) ==
  FnSet(mgc, mid,
        Append(IF mid \in DOMAIN mgc THEN mgc[mid] ELSE <<>>,
               [conn |-> c, addr |-> TcpAddr(c), username |-> user]))

\* if port: addrs.setdefault(meet_id, set()).add((client_ip, port))
AddrsAfterJoin(d, mid, ip, port) ==
  IF PortGiven(port)
  THEN DictSet(d, mid, (IF mid \in DictKeys(d) THEN DictGet(d, mid) ELSE {}) \cup {<<ip, port>>})
  ELSE d

\* if vid_port: udp_to_meet[(client_ip, vid_port)] = meet_id   (same for udp_to_user)
ReverseAfterJoin(f, ip, port, val) ==
  IF PortGiven(port) THEN FnSet(f, <<ip, port>>, val) ELSE f

\* lines 131-134: drop the entries with this connection's addr, and the
\* meeting when its list becomes empty
GeneralAfterLeave(mgc, mid, addr) ==
  IF mid \in DOMAIN mgc
  THEN LET kept == SelectSeq(mgc[mid], LAMBDA x : x.addr # addr)
       IN IF kept = <<>> THEN FnDel(mgc, mid) ELSE [mgc EXCEPT ![mid] = kept]
  ELSE mgc

\* lines 136-148: within the connection's meeting, keep the addresses of
\* other IPs; drop the meeting's set when nothing is kept
AddrsAfterLeave(d, mid, ip) ==
  IF Truthy(mid) /\ mid \in DictKeys(d)
  THEN LET to_keep == {a \in DictGet(d, mid) : a[1] # ip}
       IN IF to_keep # {} THEN DictSet(d, mid, to_keep) ELSE DictDel(d, mid)
  ELSE d

\* lines 150-153: pop every reverse entry whose key has the connection's IP
ReverseAfterLeave(f, keys, mid, ip) ==
  IF Truthy(mid)
  THEN [a \in DOMAIN f \ {k \in keys : k[1] = ip} |-> f[a]]
  ELSE f

\* udp_to_meet.get(sender), line 183
LookupExact(utm, sender) == IF sender \in DOMAIN utm THEN utm[sender] ELSE None

RECURSIVE LookupByIp(_, _)
\* lines 188-191: the first meeting, in dict order, one of whose video
\* addresses has the sender's IP
LookupByIp(mva, ip) ==
  IF mva = <<>> THEN None
  ELSE IF \E a \in Head(mva).v : a[1] = ip THEN Head(mva).k
       ELSE LookupByIp(Tail(mva), ip)

\* lines 183-191 as a whole: the exact entry, else the scan by IP
LookupMeeting(utm, mva, sender) ==
  IF Truthy(LookupExact(utm, sender)) THEN LookupExact(utm, sender)
  ELSE LookupByIp(mva, sender[1])

\* meet_video_addrs.get(meet, set()), line 196
VideoPeers(mva, meet) == IF meet \in DictKeys(mva) THEN DictGet(mva, meet) ELSE {}

(***************************************************************************)
(* Clients opening and closing control connections.                        *)
(***************************************************************************)
\* the handlers that still hold connection c's socket in their peers list
HoldersOf(c) ==
  {d \in Conns : pc[d] \in {"bcast", "body"} /\ \E i \in 1..Len(peers[d]) : peers[d][i].conn = c}

\* client.py connect(): open the TCP connection and send the handshake;
\* accept_general_tcp starts the handler thread.  A closed socket object is
\* never used for a new connection, so an identifier is taken again only
\* when no handler holds the old socket any more.
ClientConnect(c, m) ==
  /\ pc[c] \in {"new", "closed"}
  /\ n_joins < MaxJoins
  /\ HoldersOf(c) = {}
  /\ pc' = [pc EXCEPT ![c] = "handshake"]
  /\ inq' = [inq EXCEPT ![c] = <<HandshakeOf(c, m)>>]
  /\ eof' = [eof EXCEPT ![c] = FALSE]
  /\ client_fid' = [client_fid EXCEPT ![c] = 0]
  /\ n_joins' = n_joins + 1
  /\ UNCHANGED <<regVars, timeVars, netVars, threadVars, meet_id, chatVars>>
  /\ UNCHANGED <<video_reassembly, vl_pc, vl_pkt, vl_payload, vl_meet,
                 video_net, video_sent, n_frames, n_stray>>

\* a program other than client.py connects: its first message is not a
\* whole handshake; after the first bytes of a message it sends no more
ClientConnectBad(c, first) ==
  /\ pc[c] \in {"new", "closed"}
  /\ n_joins < MaxJoins
  /\ HoldersOf(c) = {}
  /\ pc' = [pc EXCEPT ![c] = "handshake"]
  /\ inq' = [inq EXCEPT ![c] = <<first>>]
  /\ eof' = [eof EXCEPT ![c] = (first.msg_type = "partial")]
  /\ client_fid' = [client_fid EXCEPT ![c] = 0]
  /\ n_joins' = n_joins + 1
  /\ UNCHANGED <<regVars, timeVars, netVars, threadVars, meet_id, chatVars>>
  /\ UNCHANGED <<video_reassembly, vl_pc, vl_pkt, vl_payload, vl_meet,
                 video_net, video_sent, n_frames, n_stray>>

\* the client closes its socket (leave_call, or the process ends)
ClientClose(c) ==
  /\ pc[c] \notin {"new", "closed"}
  /\ ~eof[c]
  /\ eof' = [eof EXCEPT ![c] = TRUE]
  /\ UNCHANGED <<regVars, videoVars, timeVars, netVars, threadVars, chatVars, pc, meet_id, inq, n_joins>>

\* the client goes down after the first bytes of a message (its length
\* prefix, or a part of its pickle)
ClientCloseMidMessage(c) ==
  /\ pc[c] \notin {"new", "closed"}
  /\ ~eof[c]
  /\ inq' = [inq EXCEPT ![c] = Append(@, [msg_type |-> "partial"])]
  /\ eof' = [eof EXCEPT ![c] = TRUE]
  /\ UNCHANGED <<regVars, videoVars, timeVars, netVars, threadVars, chatVars, pc, meet_id, n_joins>>

(***************************************************************************)
(* handle_general.                                                         *)
(***************************************************************************)
\* the finally block as a whole: deregistration under dict_lock, then close;
\* the thread's locals and the socket are gone
Deregister(c) ==
  /\ meet_general_clients' = GeneralAfterLeave(meet_general_clients, meet_id[c], TcpAddr(c))
  /\ meet_video_addrs' = AddrsAfterLeave(meet_video_addrs, meet_id[c], IpOf(c))
  /\ meet_audio_addrs' = AddrsAfterLeave(meet_audio_addrs, meet_id[c], IpOf(c))
  /\ udp_to_meet' = ReverseAfterLeave(udp_to_meet, DOMAIN udp_to_meet, meet_id[c], IpOf(c))
  /\ udp_to_user' = ReverseAfterLeave(udp_to_user, DOMAIN udp_to_meet, meet_id[c], IpOf(c))
  /\ pc' = [pc EXCEPT ![c] = "closed"]
  /\ meet_id' = [meet_id EXCEPT ![c] = None]
  /\ sock_log' = [sock_log EXCEPT ![c] = <<>>]

\* a read that never reports the end of the stream
NeverEnds(stream) == FALSE

\* lines 36-53: recv_pickle_prefixed returns None when the connection has
\* closed before a whole message came
NoWholeMessage(stream) ==
  IF stream = <<>> THEN TRUE ELSE Head(stream).msg_type = "partial"

\* lines 76-96: read the handshake and register, or give up on a
\* connection that closed before a whole message came
HandlerHandshake(c) ==
  /\ pc[c] = "handshake"
  /\ inq[c] # <<>> \/ eof[c]
  /\ IF NoWholeMessage(inq[c])
     THEN /\ Deregister(c)
          /\ inq' = [inq EXCEPT ![c] = <<>>]
     ELSE LET info == Head(inq[c]) IN
          /\ meet_id' = [meet_id EXCEPT ![c] = Field(info, "meet_id")]
          /\ inq' = [inq EXCEPT ![c] = Tail(inq[c])]
          /\ meet_general_clients' =
               GeneralAfterJoin(meet_general_clients, Field(info, "meet_id"), c,
                                Field(info, "username"))
          /\ meet_video_addrs' =
               AddrsAfterJoin(meet_video_addrs, Field(info, "meet_id"), IpOf(c),
                              info.video_udp_port)
          /\ udp_to_meet' =
               ReverseAfterJoin(udp_to_meet, IpOf(c), info.video_udp_port,
                                Field(info, "meet_id"))
          /\ udp_to_user' =
               ReverseAfterJoin(udp_to_user, IpOf(c), info.video_udp_port,
                                Field(info, "username"))
          /\ meet_audio_addrs' =
               AddrsAfterJoin(meet_audio_addrs, Field(info, "meet_id"), IpOf(c),
                              info.audio_udp_port)
          /\ pc' = [pc EXCEPT ![c] = "loop"]
          /\ UNCHANGED sock_log
  /\ UNCHANGED <<videoVars, timeVars, netVars, threadVars, msg, peers, remaining, n_sends, eof, n_joins>>

\* lines 100-102 and 129-158: recv_pickle_prefixed returns None on a closed
\* connection, the loop breaks and the finally block runs
HandlerLeave(c) ==
  /\ pc[c] = "loop"
  /\ NoWholeMessage(inq[c])
  /\ eof[c]
  /\ Deregister(c)
  /\ inq' = [inq EXCEPT ![c] = <<>>]
  /\ UNCHANGED <<videoVars, timeVars, netVars, threadVars, msg, peers, remaining, n_sends, eof, n_joins>>

(***************************************************************************)
(* The control stream of a client: length-prefixed messages, each one      *)
(* unit, and raw file-body units.                                          *)
(***************************************************************************)
\* client.py send_chat (lines 555-563): one length-prefixed chat message
ClientSendChat(c) ==
  /\ pc[c] \notin {"new", "closed"}
  /\ ~eof[c]
  /\ n_sends < MaxSends
  /\ inq' = [inq EXCEPT ![c] =
               Append(@, [msg_type |-> "chat", username |-> UserOf(c),
                          message |-> n_sends + 1])]
  /\ n_sends' = n_sends + 1
  /\ UNCHANGED <<regVars, videoVars, timeVars, netVars, threadVars, pc, meet_id, eof, n_joins,
                 msg, peers, remaining, sock_log>>

\* the body of a file of s units, as the units the client writes
FileBody(s) == [i \in 1..s |-> [msg_type |-> "raw", byte |-> i]]

\* client.py send_file (lines 566-582): the header with the file's size,
\* then the body; the client gets k of the s body units out, and k < s is a
\* client that goes down in the middle of the transfer
ClientSendFile(c, s, k) ==
  /\ pc[c] \notin {"new", "closed"}
  /\ ~eof[c]
  /\ n_sends < MaxSends
  /\ inq' = [inq EXCEPT ![c] =
               Append(@, [msg_type |-> "file", username |-> UserOf(c),
                          filename |-> n_sends + 1, size |-> s])
                 \o SubSeq(FileBody(s), 1, k)]
  /\ eof' = [eof EXCEPT ![c] = (k < s)]
  /\ n_sends' = n_sends + 1
  /\ UNCHANGED <<regVars, videoVars, timeVars, netVars, threadVars, pc, meet_id, n_joins,
                 msg, peers, remaining, sock_log>>

(***************************************************************************)
(* handle_general: the relay loop (lines 99-126).                          *)
(***************************************************************************)
\* a copy that takes the participants of every meeting
RECURSIVE PeersOfAllMeetings(_, _)
PeersOfAllMeetings(mgc, mid) ==
  IF DOMAIN mgc = {} THEN <<>>
  ELSE LET m == CHOOSE x \in DOMAIN mgc : TRUE
       IN mgc[m] \o PeersOfAllMeetings(FnDel(mgc, m), mid)

\* line 104: list(meet_general_clients.get(meet_id, []))
PeersSnapshot(mgc, mid) == IF mid \in DOMAIN mgc THEN mgc[mid] ELSE <<>>

\* a filter that lets the sender's own entry through
IsAnyone(p_addr, addr) == TRUE

\* lines 106 and 122: if p_addr != addr
IsOther(p_addr, addr) == p_addr # addr

\* a sendall on a socket that the server has closed raises
SendRaises(p) == pc[p] = "closed"

\* a loop that the first exception ends
StopsAtFailure(plist, i, raised) == IF raised THEN Len(plist) + 1 ELSE i + 1

\* lines 107-110 and 123-126: try / except Exception: pass, and the loop
\* goes on with the next peer
NextPeer(plist, i, raised) == i + 1

RECURSIVE LogToMembers(_, _, _, _, _, _)
\* a relay that writes to the meeting's members of the moment, whatever
\* list was copied when the message was read
LogToMembers(log, plist, i, c, m, chunk) ==
  LET fresh == PeersSnapshot(meet_general_clients, meet_id[c]) IN
  IF i > Len(fresh) THEN log
  ELSE LET p == fresh[i].conn
           sent == [src |-> c, msg |-> m, chunk |-> chunk]
           other == IsOther(fresh[i].addr, TcpAddr(c))
       IN LogToMembers(IF other /\ ~SendRaises(p)
                       THEN [log EXCEPT ![p] = Append(@, sent)]
                       ELSE log,
                       plist, i + 1, c, m, chunk)

RECURSIVE LogBeforeSends(_, _, _, _, _, _)
\* a relay that puts what it writes in front of what the socket was sent
\* before
LogBeforeSends(log, plist, i, c, m, chunk) ==
  IF i > Len(plist) THEN log
  ELSE LET p == plist[i].conn
           sent == [src |-> c, msg |-> m, chunk |-> chunk]
           other == IsOther(plist[i].addr, TcpAddr(c))
       IN LogBeforeSends(IF other /\ ~SendRaises(p)
                         THEN [log EXCEPT ![p] = <<sent>> \o @]
                         ELSE log,
                         plist, NextPeer(plist, i, other /\ SendRaises(p)), c, m, chunk)

\* lines 105-110 and 121-126: the for loop over the copied peers from
\* position i on; each sendall is recorded on the peer's socket; a sendall
\* on a socket that has been closed raises before anything is written, and
\* the exception is swallowed
RECURSIVE LogAfterSends(_, _, _, _, _, _)
LogAfterSends(log, plist, i, c, m, chunk) ==
  IF i > Len(plist) THEN log
  ELSE LET p == plist[i].conn
           sent == [src |-> c, msg |-> m, chunk |-> chunk]
           other == IsOther(plist[i].addr, TcpAddr(c))
       IN LogAfterSends(IF other /\ ~SendRaises(p)
                        THEN [log EXCEPT ![p] = Append(@, sent)]
                        ELSE log,
                        plist, NextPeer(plist, i, other /\ SendRaises(p)), c, m, chunk)

\* lines 100-104: a whole message has arrived; copy the meeting's peers
\* under dict_lock
HandlerRecv(c) ==
  /\ pc[c] = "loop"
  /\ inq[c] # <<>>
  /\ ~NoWholeMessage(inq[c])
  /\ msg' = [msg EXCEPT ![c] = Head(inq[c])]
  /\ inq' = [inq EXCEPT ![c] = Tail(inq[c])]
  /\ peers' = [peers EXCEPT ![c] = PeersSnapshot(meet_general_clients, meet_id[c])]
  /\ pc' = [pc EXCEPT ![c] = "bcast"]
  /\ UNCHANGED <<regVars, videoVars, timeVars, netVars, threadVars, meet_id, eof, n_joins,
                 remaining, sock_log, n_sends>>

\* lines 105-114: send the message to the copied peers; a file header with
\* a positive size starts the body relay
HandlerBroadcast(c) ==
  /\ pc[c] = "bcast"
  /\ sock_log' = LogAfterSends(sock_log, peers[c], 1, c, msg[c], <<>>)
  /\ IF msg[c].msg_type = "file" /\ msg[c].size > 0
     THEN /\ remaining' = [remaining EXCEPT ![c] = msg[c].size]
          /\ pc' = [pc EXCEPT ![c] = "body"]
          /\ UNCHANGED <<msg, peers>>
     ELSE /\ pc' = [pc EXCEPT ![c] = "loop"]
          /\ msg' = [msg EXCEPT ![c] = NoMsg]
          /\ peers' = [peers EXCEPT ![c] = <<>>]
          /\ UNCHANGED remaining
  /\ UNCHANGED <<regVars, videoVars, timeVars, netVars, threadVars, meet_id, inq, eof, n_joins, n_sends>>

\* a chunk size that ignores what is left of the body
ChunkSizeFixed(rem) == FILE_CHUNK

\* line 116: chunk_size = min(1024, remaining)
ChunkSize(rem) == Min(FILE_CHUNK, rem)

\* the byte a unit of the stream stands for when it is read as file body
ByteOf(u) == IF u.msg_type = "raw" THEN u.byte ELSE 0

\* lines 115-126: one round of the body loop.  recv_exact returns the chunk
\* once chunk_size units are there; on a connection that closed with fewer
\* it returns None, what it had read is lost, and the loop breaks
HandlerChunk(c) ==
  /\ pc[c] = "body"
  /\ Len(inq[c]) >= ChunkSize(remaining[c]) \/ eof[c]
  /\ IF Len(inq[c]) >= ChunkSize(remaining[c])
     THEN LET n == ChunkSize(remaining[c])
              chunk == [i \in 1..n |-> ByteOf(inq[c][i])]
              left == remaining[c] - n
          IN /\ inq' = [inq EXCEPT ![c] = SubSeq(@, n + 1, Len(@))]
             /\ sock_log' = LogAfterSends(sock_log, peers[c], 1, c, NoMsg, chunk)
             /\ IF left > 0
                THEN /\ remaining' = [remaining EXCEPT ![c] = left]
                     /\ UNCHANGED <<pc, msg, peers>>
                ELSE /\ remaining' = [remaining EXCEPT ![c] = 0]
                     /\ pc' = [pc EXCEPT ![c] = "loop"]
                     /\ msg' = [msg EXCEPT ![c] = NoMsg]
                     /\ peers' = [peers EXCEPT ![c] = <<>>]
     ELSE /\ inq' = [inq EXCEPT ![c] = <<>>]
          /\ remaining' = [remaining EXCEPT ![c] = 0]
          /\ pc' = [pc EXCEPT ![c] = "loop"]
          /\ msg' = [msg EXCEPT ![c] = NoMsg]
          /\ peers' = [peers EXCEPT ![c] = <<>>]
          /\ UNCHANGED sock_log
  /\ UNCHANGED <<regVars, videoVars, timeVars, netVars, threadVars, meet_id, eof, n_joins, n_sends>>

(***************************************************************************)
(* Video datagrams arriving at the server.                                 *)
(***************************************************************************)
\* send_camera_loop: fid = (fid+1) & 0xFFFFFFFF, then one datagram per
\* fragment of the serialised frame.  The loop sleeps 40 ms between two
\* frames: on the LAN the datagrams of a frame have arrived by then.
ClientSendFrameUpTo(c, data, limit) ==
  /\ pc[c] \notin {"new", "closed"}
  /\ ~eof[c]
  /\ n_frames < limit
  /\ \A d \in video_net : d.src # VideoAddr(c)
  /\ client_fid' = [client_fid EXCEPT ![c] = client_fid[c] + 1]
  /\ video_net' = video_net \cup FrameDatagrams(VideoAddr(c), client_fid[c] + 1, data)
  /\ n_frames' = n_frames + 1
  /\ UNCHANGED <<regVars, timeVars, netVars, threadVars, connVars, chatVars>>
  /\ UNCHANGED <<video_reassembly, vl_pc, vl_pkt, vl_payload, vl_meet, video_sent, n_stray>>

\* the frames of all clients together are counted up to MaxFrames
ClientSendFrame(c, data) == ClientSendFrameUpTo(c, data, MaxFrames)

\* a program at the address of client c sends a frame in parts as long as
\* the listener takes them
SendBigFrame(c, data) ==
  /\ pc[c] \notin {"new", "closed"}
  /\ ~eof[c]
  /\ n_frames < MaxFrames
  /\ \A d \in video_net : d.src # VideoAddr(c)
  /\ client_fid' = [client_fid EXCEPT ![c] = client_fid[c] + 1]
  /\ video_net' = video_net \cup BigDatagrams(VideoAddr(c), client_fid[c] + 1, data)
  /\ n_frames' = n_frames + 1
  /\ UNCHANGED <<regVars, timeVars, netVars, threadVars, connVars, chatVars>>
  /\ UNCHANGED <<video_reassembly, vl_pc, vl_pkt, vl_payload, vl_meet, video_sent, n_stray>>

\* header fields of a datagram that no well-behaved client sends: a total
\* of 0, an index beyond the total, a total that differs from the frame's
StrayTotals == 0..2

StrayIdxs == 0..1

\* a datagram with an arbitrary header and other content on the key of the
\* frame the client sent last (a duplicate, a corrupted header, a stale
\* datagram of an earlier camera run that counted from the same fid)
InjectDatagram(c, total, idx) ==
  /\ n_stray < MaxStray
  /\ n_stray < n_frames
  /\ client_fid[c] > 0
  /\ video_net' = video_net \cup
       {[src |-> VideoAddr(c), fid |-> client_fid[c], total |-> total, idx |-> idx,
         data |-> <<0>>]}
  /\ n_stray' = n_stray + 1
  /\ UNCHANGED <<regVars, timeVars, netVars, threadVars, connVars, chatVars>>
  /\ UNCHANGED <<video_reassembly, vl_pc, vl_pkt, vl_payload, vl_meet, video_sent,
                 client_fid, n_frames>>

\* UDP loses datagrams
DropDatagram(d) ==
  /\ d \in video_net
  /\ video_net' = video_net \ {d}
  /\ UNCHANGED <<regVars, timeVars, netVars, threadVars, connVars, chatVars>>
  /\ UNCHANGED <<video_reassembly, vl_pc, vl_pkt, vl_payload, vl_meet, video_sent,
                 client_fid, n_frames, n_stray>>

(***************************************************************************)
(* video_udp_listener: reassembly (lines 170-181).                         *)
(***************************************************************************)
KeyOf(d) == <<d.src, d.fid>>

\* a store that records the total of every datagram
EntryAfterStoreLastTotal(tab, d, t) ==
  LET entry == IF KeyOf(d) \in DOMAIN tab THEN tab[KeyOf(d)]
               ELSE [parts |-> <<>>, total |-> d.total, ts |-> t]
  IN [entry EXCEPT !.parts = DictSet(entry.parts, d.idx, d.data), !.ts = t,
                   !.total = d.total]

\* lines 172-177: look the buffer up or create it with the datagram's
\* total, store the part under its index, touch the timestamp
EntryAfterStore(tab, d, t) ==
  LET entry == IF KeyOf(d) \in DOMAIN tab THEN tab[KeyOf(d)]
               ELSE [parts |-> <<>>, total |-> d.total, ts |-> t]
  IN [entry EXCEPT !.parts = DictSet(entry.parts, d.idx, d.data), !.ts = t]

\* line 178: len(entry['parts']) == entry['total']
Complete(entry) == Len(entry.parts) = entry.total

\* line 179 raises KeyError when an index of range(total) is not stored
JoinRaises(entry) == \E i \in 0..(entry.total - 1) : i \notin DictKeys(entry.parts)

\* a listener that joins whatever it holds as soon as the count is reached
EmitsOnCount(entry) == Complete(entry)

\* lines 178-180 reach line 181: the count is reached and the join does
\* not raise
Emits(entry) == Complete(entry) /\ ~JoinRaises(entry)

RECURSIVE JoinFrom(_, _)
\* parts[i] + parts[i+1] + ... + parts[total-1]
JoinFrom(entry, i) ==
  IF i >= entry.total THEN <<>>
  ELSE (IF i \in DictKeys(entry.parts) THEN DictGet(entry.parts, i) ELSE <<>>)
         \o JoinFrom(entry, i + 1)

RECURSIVE JoinValues(_)
\* the stored parts one after the other, as the dict holds them
JoinValues(parts) ==
  IF parts = <<>> THEN <<>> ELSE Head(parts).v \o JoinValues(Tail(parts))

\* a join in arrival order: b''.join(entry['parts'].values())
ReassembleInArrivalOrder(entry) == JoinValues(entry.parts)

\* lines 179-180: b''.join(entry['parts'][i] for i in range(entry['total']))
Reassemble(entry) == JoinFrom(entry, 0)

\* int(time.time() * 1000) & 0xFFFFFFFF, line 203; the mask changes nothing
\* in the range of the model's clock
FrameIdOut(t) == t * 1000

\* line 207: struct.pack(">IHH", frame_id_out, total, idx) raises
\* struct.error when total does not fit its 16 bits
PackRaises(payload_bytes) == NumFragments(payload_bytes) > HDR_MAX_TOTAL

\* lines 200-209: the datagrams sent to one peer
RelayDatagrams(peer, payload_bytes, t) ==
  {[dst |-> peer, fid |-> FrameIdOut(t), total |-> NumFragments(payload_bytes),
    idx |-> i, data |-> FragmentOf(payload_bytes, i)]
     : i \in 0..(NumFragments(payload_bytes) - 1)}

\* lines 164-183: receive one datagram, store it, and when the buffer is
\* complete join it, delete the buffer and look the sender up by its exact
\* address.  reassembly_lock is held from here until the pass ends.
VideoRecv(d) ==
  /\ vl_pc = "idle"
  /\ d \in video_net
  /\ video_net' = video_net \ {d}
  /\ LET entry == EntryAfterStore(video_reassembly, d, now) IN
     IF Emits(entry)
     THEN /\ vl_pkt' = d
          /\ vl_payload' = Reassemble(entry)
          /\ video_reassembly' = FnDel(video_reassembly, KeyOf(d))
          /\ vl_meet' = LookupExact(udp_to_meet, d.src)
          /\ vl_pc' = IF Truthy(LookupExact(udp_to_meet, d.src)) THEN "snapshot" ELSE "fallback"
     ELSE \* not complete yet, or the KeyError is caught at line 212:
          \* back to recvfrom
          /\ video_reassembly' = FnSet(video_reassembly, KeyOf(d), entry)
          /\ UNCHANGED <<vl_pkt, vl_payload, vl_meet, vl_pc>>
  /\ UNCHANGED <<regVars, timeVars, netVars, threadVars, connVars, chatVars>>
  /\ UNCHANGED <<video_sent, client_fid, n_frames, n_stray>>

\* lines 184-193: no exact entry: scan the meetings for the sender's IP
\* under dict_lock; give the frame up when no meeting is found
VideoFallback ==
  /\ vl_pc = "fallback"
  /\ IF Truthy(LookupByIp(meet_video_addrs, vl_pkt.src[1]))
     THEN /\ vl_meet' = LookupByIp(meet_video_addrs, vl_pkt.src[1])
          /\ vl_pc' = "snapshot"
          /\ UNCHANGED <<vl_pkt, vl_payload>>
     ELSE \* `continue`: back to recvfrom, the locals are dead
          /\ vl_pc' = "idle"
          /\ vl_pkt' = NoPkt
          /\ vl_payload' = <<>>
          /\ vl_meet' = None
  /\ UNCHANGED <<regVars, timeVars, netVars, threadVars, connVars, chatVars>>
  /\ UNCHANGED <<video_reassembly, video_net, video_sent, client_fid, n_frames, n_stray>>

\* lines 208-211: a sendto that raises is passed over, and the loops go on
ReachedPeers(targets, failing) == targets \ failing

\* the network starts or stops refusing datagrams for address a
NetChange(a) ==
  /\ unreachable' = IF a \in unreachable THEN unreachable \ {a} ELSE unreachable \cup {a}
  /\ UNCHANGED <<regVars, videoVars, timeVars, connVars, chatVars, audio_sent, threadVars>>

\* lines 195-211: copy the meeting's video addresses under dict_lock, then
\* fragment the payload again for every peer but the sender.  When the
\* first struct.pack raises, line 212 catches it: nothing has been sent,
\* and the listener goes back to recvfrom.
VideoRelay ==
  /\ vl_pc = "snapshot"
  /\ video_sent' =
       IF PackRaises(vl_payload) THEN {}
       ELSE UNION {RelayDatagrams(peer, vl_payload, now)
                     : peer \in ReachedPeers(VideoPeers(meet_video_addrs, vl_meet) \ {vl_pkt.src},
                                             unreachable)}
  /\ vl_pc' = "idle"
  /\ vl_pkt' = NoPkt
  /\ vl_payload' = <<>>
  /\ vl_meet' = None
  /\ UNCHANGED <<regVars, timeVars, netVars, threadVars, connVars, chatVars>>
  /\ UNCHANGED <<video_reassembly, video_net, client_fid, n_frames, n_stray>>

(***************************************************************************)
(* audio_udp_listener (lines 216-234).                                     *)
(***************************************************************************)
\* the audio packets a client sends: an empty datagram, or a chunk of
\* samples (client.py lines 529-530)
AudioPackets == {<<>>, <<1>>}

\* lines 224-228: every meeting one of whose audio addresses has the
\* sender's IP gives all its addresses but the sender's; the loop over the
\* meetings has no break
AudioTargets(maa, sender) ==
  UNION {DictGet(maa, m) : m \in {k \in DictKeys(maa) : \E a \in DictGet(maa, k) : a[1] = sender[1]}}
    \ {sender}

\* lines 219-232: one datagram from the audio socket of client c is
\* received and, under dict_lock, sent as it is to the targets; an empty
\* datagram is skipped (line 220), a sendto that raises is passed over
AudioRelay(c, pkt) ==
  /\ pc[c] \notin {"new", "closed"}
  /\ ~eof[c]
  /\ audio_sent' =
       [src |-> AudioAddr(c), data |-> pkt,
        dsts |-> IF pkt = <<>> THEN {}
                 ELSE ReachedPeers(AudioTargets(meet_audio_addrs, AudioAddr(c)), unreachable)]
  /\ UNCHANGED <<regVars, videoVars, timeVars, connVars, chatVars, unreachable, threadVars>>

(***************************************************************************)
(* cleanup_old_reassembly (lines 59-69) and the clock.                     *)
(***************************************************************************)
\* a sweeper that deletes at the TTL already
StaleAtTtl(entry, t) == t - entry.ts >= FRAME_TTL

\* line 65: now - v['ts'] > FRAME_TTL
Stale(entry, t) == t - entry.ts > FRAME_TTL

\* one pass of the sweeper; it waits for reassembly_lock, which the
\* listener holds while it handles a datagram
Sweep ==
  /\ now >= next_sweep
  /\ vl_pc = "idle"
  /\ video_reassembly' =
       [k \in {x \in DOMAIN video_reassembly : ~Stale(video_reassembly[x], now)}
          |-> video_reassembly[k]]
  /\ next_sweep' = now + SWEEP_INTERVAL
  /\ UNCHANGED <<regVars, netVars, threadVars, connVars, chatVars, now>>
  /\ UNCHANGED <<vl_pc, vl_pkt, vl_payload, vl_meet, video_net, video_sent,
                 client_fid, n_frames, n_stray>>

\* a second passes; the sweeper is never more than an instant late
Tick ==
  /\ now < MaxTime
  /\ now < next_sweep
  /\ now' = now + 1
  /\ UNCHANGED <<regVars, videoVars, netVars, threadVars, connVars, chatVars, next_sweep>>

(***************************************************************************)
(* Reassembly under the clock: client c1 joins meeting m1 and sends         *)
(* frames, the first ones possibly before its handshake is read; datagrams *)
(* with arbitrary headers arrive from its address; the listener and the    *)
(* sweeper run.                                                            *)
(***************************************************************************)
NextReasm ==
  \/ \E c \in {"c1"}, m \in {"m1"} : ClientConnect(c, m)
  \/ \E c \in {"c1"} : HandlerHandshake(c)
  \/ \E c \in {"c1"}, data \in Payloads : ClientSendFrame(c, data)
  \/ \E c \in {"c1"}, t \in StrayTotals, i \in StrayIdxs : InjectDatagram(c, t, i)
  \/ \E d \in video_net : VideoRecv(d)
  \/ VideoFallback
  \/ VideoRelay
  \/ Sweep
  \/ Tick

SpecReasm == Init /\ [][NextReasm]_vars

(***************************************************************************)
(* Properties of reassembly.                                               *)
(***************************************************************************)
\* the listener step in which a payload is reconstructed (line 180)
EmitStep == vl_pc = "idle" /\ vl_pc' \in {"fallback", "snapshot"}

\* the buffer holds exactly the fragments of `data`, each with total = N
HoldsFrame(entry, data) ==
  /\ entry.total = NumFragments(data)
  /\ {<<entry.parts[i].k, entry.parts[i].v>> : i \in 1..Len(entry.parts)}
       = {<<i, FragmentOf(data, i)>> : i \in 0..(NumFragments(data) - 1)}

\* the indices a key's buffer holds (none when there is no buffer)
StoredIdxs(key) ==
  IF key \in DOMAIN video_reassembly THEN DictKeys(video_reassembly[key].parts) ELSE {}

\* C1: whenever the fragments of a payload, in whatever order they came,
\* are what the buffer of their key holds once the last of them is stored,
\* that step reconstructs the payload and the result equals the original;
\* no buffer is left holding a whole frame.
C1_ReassemblyIsOrderIndependent ==
  /\ [](\A key \in DOMAIN video_reassembly : \A data \in Payloads :
          ~HoldsFrame(video_reassembly[key], data))
  /\ [][EmitStep =>
          \A data \in Payloads :
            HoldsFrame(EntryAfterStore(video_reassembly, vl_pkt', now), data)
              => vl_payload' = data]_vars

\* C1 witness: the three-fragment frame has been reconstructed by a step
\* that stored fragment 1 last, so the arrival order was not the index order
C1_Witness ==
  /\ vl_pc \in {"fallback", "snapshot"}
  /\ vl_payload = [i \in 1..MaxPayloadLen |-> i]
  /\ vl_pkt.total = 3
  /\ vl_pkt.idx = 1

\* C2: a payload is reconstructed only by the step after which the buffer
\* holds every index 0..total-1, and only when it did not hold them all
\* before: the datagram of that step brings an index that was not stored.
C2_EmitOnlyOnFirstCompletion ==
  [][EmitStep =>
       LET entry == EntryAfterStore(video_reassembly, vl_pkt', now)
       IN /\ \A i \in 0..(entry.total - 1) : i \in DictKeys(entry.parts)
          /\ \E i \in 0..(entry.total - 1) : i \notin StoredIdxs(KeyOf(vl_pkt'))
          /\ vl_pkt'.idx \notin StoredIdxs(KeyOf(vl_pkt'))]_vars

\* C2 witness: a buffer that already held an index received that index
\* again, and is still waiting for the rest
C2_Witness ==
  \E key \in DOMAIN video_reassembly :
    LET e == video_reassembly[key]
    IN /\ e.total = 2
       /\ DictKeys(e.parts) = {0}
       /\ e.parts[1].v = <<0>>
       /\ vl_pc = "idle"

\* C5 (as claimed): no payload is reconstructed from a buffer whose last
\* touch is more than FRAME_TTL old when the completing fragment arrives.
C5_NoEmitAfterTtl ==
  [][EmitStep /\ KeyOf(vl_pkt') \in DOMAIN video_reassembly
       => ~Stale(video_reassembly[KeyOf(vl_pkt')], now)]_vars

(***************************************************************************)
(* The relay among meetings: clients join and leave, and send frames that  *)
(* arrive whole within one sweep period; the listener handles a datagram   *)
(* without a join or a leave in between.                                   *)
(***************************************************************************)
NextRelay ==
  \/ \E c \in Conns, m \in MeetIds : ClientConnect(c, m)
  \/ \E c \in Conns : ClientClose(c)
  \/ \E c \in Conns : vl_pc = "idle" /\ HandlerHandshake(c)
  \/ \E c \in Conns : vl_pc = "idle" /\ HandlerLeave(c)
  \/ \E c \in Conns : ClientSendFrame(c, [i \in 1..(MAX_UDP_PAYLOAD + 1) |-> i])
  \/ \E d \in video_net : VideoRecv(d)
  \/ VideoFallback
  \/ VideoRelay

SpecRelay == Init /\ [][NextRelay]_vars

(***************************************************************************)
(* Properties of the video relay and of deregistration.                    *)
(***************************************************************************)
\* the listener step that copies the peers and sends (lines 195-211)
RelayStep == vl_pc = "snapshot" /\ vl_pc' = "idle"

\* the listener step that gives a reconstructed frame up (line 193)
GiveUpStep == vl_pc = "fallback" /\ vl_pc' = "idle"

\* the meetings in whose video address set an address is registered
MeetingsOf(addr) ==
  {m \in DictKeys(meet_video_addrs) : addr \in DictGet(meet_video_addrs, m)}

\* the addresses the latest relay pass sent datagrams to
SentTo(sent) == {d.dst : d \in sent}

C4_VideoMeetingIsolation ==
  [][RelayStep =>
       \A m \in MeetingsOf(vl_pkt.src) :
         SentTo(video_sent') \subseteq DictGet(meet_video_addrs, m)]_vars

\* the step in which handler c runs its finally block
DeregisterStep(c) == pc[c] # "closed" /\ pc'[c] = "closed"

\* C10 (as claimed): once a registered connection is deregistered, it is
\* not in its meeting's participant list, its video and audio addresses are
\* in no address set of that meeting and in neither reverse map, and the
\* video relay's lookup of its video address finds no meeting.
C10_DeregisteredIsGone ==
  [][\A c \in Conns :
       DeregisterStep(c) /\ Truthy(meet_id[c]) =>
         /\ meet_id[c] \in DOMAIN meet_general_clients' =>
              \A i \in 1..Len(meet_general_clients'[meet_id[c]]) :
                meet_general_clients'[meet_id[c]][i].conn # c
         /\ VideoAddr(c) \notin VideoPeers(meet_video_addrs', meet_id[c])
         /\ AudioAddr(c) \notin VideoPeers(meet_audio_addrs', meet_id[c])
         /\ VideoAddr(c) \notin DOMAIN udp_to_meet'
         /\ VideoAddr(c) \notin DOMAIN udp_to_user'
         /\ ~Truthy(LookupMeeting(udp_to_meet', meet_video_addrs', VideoAddr(c)))]_vars

(***************************************************************************)
(* The control channel: c1 and c3 join meeting m1, c2 joins m1 or m2, each *)
(* once, and any of them leaves at any time; c1 sends chat messages and    *)
(* files, whole or cut short by going down, and c2 sends chat messages.    *)
(***************************************************************************)
CtlMeetings(c) == IF c = "c2" THEN MeetIds ELSE {"m1"}

ChatSenders == {"c1", "c2"}

FileSenders == {"c1"}

FileSizes == {0, MaxFileSize}

NextCtl ==
  \/ \E c \in Conns : \E m \in CtlMeetings(c) : pc[c] = "new" /\ ClientConnect(c, m)
  \/ \E c \in Conns : ClientClose(c)
  \/ \E c \in ChatSenders : ClientSendChat(c)
  \/ \E c \in FileSenders, s \in FileSizes : \E k \in 0..s : ClientSendFile(c, s, k)
  \/ \E c \in Conns : HandlerHandshake(c)
  \/ \E c \in Conns : HandlerRecv(c)
  \/ \E c \in Conns : HandlerBroadcast(c)
  \/ \E c \in Conns : HandlerChunk(c)
  \/ \E c \in Conns : HandlerLeave(c)

SpecCtl == Init /\ [][NextCtl]_vars

(***************************************************************************)
(* Properties of the control channel.                                      *)
(***************************************************************************)
\* handler p has registered its connection and not deregistered it yet
Registered(p) == pc[p] \in {"loop", "bcast", "body"}

\* the step in which handler c reads a message and copies the peers
RecvStep(c) == pc[c] = "loop" /\ pc'[c] = "bcast"

\* the step in which handler c sends its message to the copied peers
BroadcastStep(c) == pc[c] = "bcast" /\ pc'[c] # "bcast"

\* what the step writes on the socket of connection p
NewWrites(p) == SubSeq(sock_log'[p], Len(sock_log[p]) + 1, Len(sock_log'[p]))

\* the connections in handler c's copy of the peers
CopiedPeers(plist) == {plist[i].conn : i \in 1..Len(plist)}

\* C6: a chat message read from A's connection in meeting M is written
\* exactly once on the socket of every other connection registered in M
\* when the message was read (unless the server has closed that socket
\* since), and on no other socket, A's own included.
C6_ChatBroadcastOnceToOthers ==
  [][\A c \in Conns :
       /\ RecvStep(c) /\ msg'[c].msg_type = "chat" =>
            /\ CopiedPeers(peers'[c]) =
                 {p \in Conns : Registered(p) /\ meet_id[p] = meet_id[c]}
            /\ Len(peers'[c]) = Cardinality(CopiedPeers(peers'[c]))
       /\ BroadcastStep(c) /\ msg[c].msg_type = "chat" =>
            \A p \in Conns :
              NewWrites(p) =
                IF p # c /\ p \in CopiedPeers(peers[c]) /\ pc[p] # "closed"
                THEN <<[src |-> c, msg |-> msg[c], chunk |-> <<>>]>>
                ELSE <<>>]_vars

\* a chat message from one participant has just gone to two others
C6_Witness ==
  \E c \in Conns : \E p, q \in Conns \ {c} :
    /\ p # q
    /\ pc[c] = "loop"
    /\ sock_log[c] = <<>>
    /\ sock_log[p] # <<>> /\ sock_log[q] # <<>>
    /\ sock_log[p][Len(sock_log[p])] = sock_log[q][Len(sock_log[q])]
    /\ sock_log[p][Len(sock_log[p])].src = c
    /\ sock_log[p][Len(sock_log[p])].msg.msg_type = "chat"

\* C7: whatever handler c writes (a chat message, a file header or a body
\* chunk read from a participant of meeting M) is never written on the
\* socket of a connection registered in a meeting other than M.
C7_ControlMeetingIsolation ==
  [][\A c, p \in Conns :
       (\E i \in 1..Len(NewWrites(p)) : NewWrites(p)[i].src = c) =>
         ~(Registered(p) /\ meet_id[p] # meet_id[c])]_vars

\* a participant of one meeting has been relayed to while a connection is
\* registered in the other meeting, which got nothing
C7_Witness ==
  \E c, p, q \in Conns :
    /\ Registered(c) /\ Registered(p) /\ Registered(q)
    /\ meet_id[p] = meet_id[c] /\ meet_id[q] # meet_id[c]
    /\ \E i \in 1..Len(sock_log[p]) : sock_log[p][i].src = c
    /\ sock_log[q] = <<>>

\* the position in a socket's log of the last message written by handler c
LastMsgFrom(log, c) ==
  LET S == {j \in 1..Len(log) : log[j].src = c /\ log[j].msg # NoMsg}
  IN IF S = {} THEN 0 ELSE CHOOSE j \in S : \A k \in S : k <= j

\* the body bytes handler c wrote on a socket from position j on
RECURSIVE BodyFrom(_, _, _)
BodyFrom(log, j, c) ==
  IF j > Len(log) THEN <<>>
  ELSE (IF log[j].src = c THEN log[j].chunk ELSE <<>>) \o BodyFrom(log, j + 1, c)

\* the open sockets handler c relays its transfer to
TransferPeers(c) == {p \in CopiedPeers(peers[c]) \ {c} : pc[p] # "closed"}

\* the step in which handler c leaves the body loop
BodyEndStep(c) == pc[c] = "body" /\ pc'[c] = "loop"

\* while handler c relays a body, every peer has the header as c's last
\* message, followed by the body bytes read so far, in order
HeaderThenBodySoFar ==
  \A c \in Conns : pc[c] = "body" =>
    \A p \in TransferPeers(c) :
      LET h == LastMsgFrom(sock_log[p], c)
      IN /\ h > 0
         /\ sock_log[p][h].msg = msg[c]
         /\ BodyFrom(sock_log[p], h + 1, c) =
              [i \in 1..(msg[c].size - remaining[c]) |-> i]

\* the body loop ends having read the rest of the size bytes, and the last
\* chunk goes to every peer
BodyReadInFull(c) ==
  /\ Len(inq[c]) - Len(inq'[c]) = remaining[c]
  /\ \A p \in TransferPeers(c) :
       NewWrites(p) =
         <<[src |-> c, msg |-> NoMsg,
            chunk |-> [i \in 1..remaining[c] |-> msg[c].size - remaining[c] + i]]>>

\* the sender's connection closed short of the next chunk: nothing more is
\* written, and the stream is empty
BodyCutShort(c) ==
  /\ eof[c]
  /\ Len(inq[c]) < ChunkSize(remaining[c])
  /\ inq'[c] = <<>>
  /\ \A p \in Conns : NewWrites(p) = <<>>

\* what handler c parses as a message is a message, never body bytes
ParsesMessages == \A c \in Conns : RecvStep(c) => msg'[c].msg_type # "raw"

\* C9 (as claimed): the header reaches each peer before any body chunk,
\* exactly size bytes are read as body before the next message is parsed,
\* and each peer gets exactly those bytes in the order read.
C9_TransferFraming ==
  /\ []HeaderThenBodySoFar
  /\ [][ParsesMessages /\ \A c \in Conns : BodyEndStep(c) => BodyReadInFull(c)]_vars

\* C9 (amended): as claimed, unless the sender's connection closes before
\* size bytes have arrived; then the handler stops the body relay, having
\* forwarded the whole chunks it read, and parses no further message.
C9_TransferFramingUnlessCutShort ==
  /\ []HeaderThenBodySoFar
  /\ [][/\ ParsesMessages
        /\ \A c \in Conns :
             BodyEndStep(c) => BodyReadInFull(c) \/ BodyCutShort(c)]_vars

\* a whole file of the largest size has been relayed to a peer
C9_Witness ==
  \E c \in Conns : \E p \in Conns \ {c} :
    /\ pc[c] = "loop"
    /\ Len(sock_log[p]) > 1
    /\ sock_log[p][1].src = c
    /\ sock_log[p][1].msg.msg_type = "file"
    /\ sock_log[p][1].msg.size = MaxFileSize
    /\ BodyFrom(sock_log[p], 2, c) = [i \in 1..MaxFileSize |-> i]

\* C8 (as claimed): while handler c relays a transfer, nothing that another
\* connection's handler writes comes after the header on a peer's socket.
C8_NoInterleavingInsideTransfer ==
  \A c \in Conns : pc[c] = "body" =>
    \A p \in TransferPeers(c) :
      \A j \in 1..Len(sock_log[p]) :
        j > LastMsgFrom(sock_log[p], c) => sock_log[p][j].src = c

(***************************************************************************)
(* The registry alone: connections of any kind open and close, and the     *)
(* handlers register and deregister them.                                  *)
(***************************************************************************)
NextReg ==
  \/ \E c \in Conns, m \in MeetIds : ClientConnect(c, m)
  \/ \E c \in Conns : \E first \in BadHandshakes(c) : ClientConnectBad(c, first)
  \/ \E c \in Conns : ClientClose(c)
  \/ \E c \in Conns : HandlerHandshake(c)
  \/ \E c \in Conns : HandlerLeave(c)

SpecReg == Init /\ [][NextReg]_vars

(***************************************************************************)
(* Properties of the registry.                                             *)
(***************************************************************************)
\* C11 (as claimed): every address key of udp_to_meet is in the video
\* address set of the meeting it maps to, and every address of a meeting's
\* video address set has a udp_to_meet entry that maps to that meeting.
C11_ReverseIndexAgrees ==
  /\ \A a \in DOMAIN udp_to_meet :
       a \in VideoPeers(meet_video_addrs, udp_to_meet[a])
  /\ \A m \in DictKeys(meet_video_addrs) :
       \A a \in VideoPeers(meet_video_addrs, m) :
         a \in DOMAIN udp_to_meet /\ udp_to_meet[a] = m

\* the step in which handler c has dealt with the first message
HandshakeStep(c) == pc[c] = "handshake" /\ pc'[c] # "handshake"

\* the first message is a handshake with a username and a meeting id
WholeHandshake(stream) ==
  /\ ~NoWholeMessage(stream)
  /\ "username" \in DOMAIN Head(stream)
  /\ "meet_id" \in DOMAIN Head(stream)

\* C12 (as claimed): when the first message on a connection is not a whole
\* handshake with username and meet_id, the connection is closed and no
\* registry map changes.
C12_BadHandshakeRegistersNothing ==
  [][\A c \in Conns :
       HandshakeStep(c) /\ ~WholeHandshake(inq[c]) =>
         pc'[c] = "closed" /\ UNCHANGED regVars]_vars

(***************************************************************************)
(* Leaving: c1 and c3 join meeting m1 once; c1 sends chat messages and     *)
(* files and goes down at any point; every handler thread gets to run.     *)
(***************************************************************************)
Leavers == {"c1", "c3"}

\* the steps of the handler thread of connection c
HandlerStep(c) ==
  \/ HandlerHandshake(c)
  \/ HandlerRecv(c)
  \/ HandlerBroadcast(c)
  \/ HandlerChunk(c)
  \/ HandlerLeave(c)

NextLeave ==
  \/ \E c \in Leavers : pc[c] = "new" /\ ClientConnect(c, "m1")
  \/ \E c \in Leavers : ClientClose(c)
  \/ \E c \in Leavers : ClientCloseMidMessage(c)
  \/ \E c \in FileSenders : ClientSendChat(c)
  \/ \E c \in FileSenders, s \in FileSizes : \E k \in 0..s : ClientSendFile(c, s, k)
  \/ \E c \in Leavers : HandlerStep(c)

SpecLeave ==
  Init /\ [][NextLeave]_vars /\ \A c \in Leavers : WF_vars(HandlerStep(c))

\* connection c has an entry in some participant list
InParticipants(mgc, c) ==
  \E m \in DOMAIN mgc : \E i \in 1..Len(mgc[m]) : mgc[m][i].conn = c

\* C13: a registered connection that its peer has closed, wherever the
\* handler is (waiting for a message, inside a message, inside a file
\* body), is eventually deregistered and its socket closed; the handler
\* deregisters once, and does nothing after that.
C13_ClosedConnectionIsDeregistered ==
  /\ \A c \in Conns : (Registered(c) /\ eof[c]) ~> (pc[c] = "closed")
  /\ [][\A c \in Conns :
          /\ DeregisterStep(c) => ~InParticipants(meet_general_clients', c)
          /\ pc[c] = "closed" =>
               pc'[c] = "closed" /\ ~InParticipants(meet_general_clients', c)]_vars

\* a sender that went down inside a file body has been deregistered: its
\* peer holds the header and fewer body bytes than its size
C13_Witness ==
  \E c \in Conns : \E p \in Conns \ {c} :
    /\ pc[c] = "closed"
    /\ Registered(p)
    /\ Len(sock_log[p]) > 0
    /\ sock_log[p][1].src = c
    /\ sock_log[p][1].msg.msg_type = "file"
    /\ Len(BodyFrom(sock_log[p], 2, c)) < sock_log[p][1].msg.size
    /\ ~InParticipants(meet_general_clients, c)

(***************************************************************************)
(* Failing sends: c1, c2 and c3 join meeting m1 once; c1 sends chat        *)
(* messages, whole files and, once the others have joined, a video frame;  *)
(* c3 leaves at any time, and the network refuses datagrams for the video  *)
(* address of c2 at times.                                                 *)
(***************************************************************************)
Closing == {"c3"}

Refusing == {"c2"}

NextFail ==
  \/ \E c \in Conns : pc[c] = "new" /\ ClientConnect(c, "m1")
  \/ \E c \in Closing : ClientClose(c)
  \/ \E c \in FileSenders : ClientSendChat(c)
  \/ \E c \in FileSenders, s \in FileSizes : ClientSendFile(c, s, s)
  \/ \E c \in FileSenders :
       /\ \A p \in Conns \ {c} : pc[p] \notin {"new", "handshake"}
       /\ ClientSendFrame(c, [i \in 1..(MAX_UDP_PAYLOAD + 1) |-> i])
  \/ \E c \in Refusing : NetChange(VideoAddr(c))
  \/ \E c \in Conns : HandlerStep(c)
  \/ \E d \in video_net : VideoRecv(d)
  \/ VideoFallback
  \/ VideoRelay

SpecFail == Init /\ [][NextFail]_vars

\* the step in which handler c reads a body chunk and relays it
ChunkStep(c) == pc[c] = "body" /\ remaining'[c] < remaining[c]

\* C14: when a send to one peer fails in a broadcast, a chunk relay or a
\* video fan-out, every other peer of that pass is still sent the same
\* message, chunk or frame, the handler (or the listener) goes on, and
\* nobody is deregistered.
C14_FailedSendIsIsolated ==
  [][/\ \A c \in Conns :
          BroadcastStep(c) \/ ChunkStep(c) =>
            /\ \A p \in TransferPeers(c) :
                 /\ Len(NewWrites(p)) = 1
                 /\ NewWrites(p)[1].src = c
                 /\ \A q \in TransferPeers(c) : NewWrites(q) = NewWrites(p)
            /\ pc'[c] \in {"loop", "body"}
            /\ UNCHANGED regVars
     /\ RelayStep =>
          /\ \A peer \in (VideoPeers(meet_video_addrs, vl_meet) \ {vl_pkt.src}) \ unreachable :
               RelayDatagrams(peer, vl_payload, now) \subseteq video_sent'
          /\ vl_pc' = "idle"
          /\ UNCHANGED regVars]_vars

\* the handler of c1 is in a body relay whose copy of the peers holds the
\* closed socket of c3, c2 has the header and a chunk, and the frame (sent
\* when c2 and c3 had joined) was relayed to c3 while the address of c2
\* refused it
C14_Witness ==
  /\ pc["c1"] = "body"
  /\ remaining["c1"] < msg["c1"].size
  /\ \E p \in Closing, q \in Refusing :
       /\ {p, q} \subseteq CopiedPeers(peers["c1"])
       /\ pc[p] = "closed"
       /\ q \in TransferPeers("c1")
       /\ Len(sock_log[q]) > 1
       /\ sock_log[q][Len(sock_log[q])].chunk # <<>>
       /\ VideoAddr(q) \in unreachable
       /\ SentTo(video_sent) = {VideoAddr(p)}

(***************************************************************************)
(* Payloads that are no pickle: c1, c2 and c3 join meeting m1 once, and    *)
(* one of them sends a frame that is either a serialised {username, frame} *)
(* or bytes that pickle.loads rejects.                                     *)
(***************************************************************************)
\* client.py lines 330-331: pickle.dumps(payload); unit 1 stands for the
\* PROTO opcode every pickle starts with
PickledFrame == [i \in 1..(MAX_UDP_PAYLOAD + 1) |-> i]

\* bytes of the same length that start with no opcode
GarbageFrame == [i \in 1..(MAX_UDP_PAYLOAD + 1) |-> 0]

\* client.py lines 400-402: pickle.loads(data) and the two .get calls go
\* through
Decodable(payload_bytes) == payload_bytes # <<>> /\ Head(payload_bytes) = 1

NextDecode ==
  \/ \E c \in Conns : pc[c] = "new" /\ ClientConnect(c, "m1")
  \/ \E c \in Conns : HandlerHandshake(c)
  \/ \E c \in Conns, data \in {PickledFrame, GarbageFrame} : ClientSendFrame(c, data)
  \/ \E d \in video_net : VideoRecv(d)
  \/ VideoFallback
  \/ VideoRelay

SpecDecode == Init /\ [][NextDecode]_vars

\* C15 (as claimed): a reconstructed payload that cannot be decoded as
\* {username, frame} is forwarded to no peer, and the listener goes back to
\* receiving.
C15_UndecodableIsDropped ==
  [][RelayStep /\ ~Decodable(vl_payload) => video_sent' = {} /\ vl_pc' = "idle"]_vars

(***************************************************************************)
(* Audio: every client joins one meeting once and may leave; the clients   *)
(* send audio datagrams while connected, and the network refuses           *)
(* datagrams for the audio address of c2 at times.                         *)
(***************************************************************************)
NextAudio ==
  \/ \E c \in Conns, m \in MeetIds : pc[c] = "new" /\ ClientConnect(c, m)
  \/ \E c \in Conns : ClientClose(c)
  \/ \E c \in Conns : HandlerHandshake(c)
  \/ \E c \in Conns : HandlerLeave(c)
  \/ \E c \in Conns, pkt \in AudioPackets : AudioRelay(c, pkt)
  \/ \E c \in Refusing : NetChange(AudioAddr(c))

SpecAudio == Init /\ [][NextAudio]_vars

\* the step in which the audio listener handles a datagram of client c
AudioStep(c) == audio_sent' # audio_sent /\ audio_sent'.src = AudioAddr(c)

\* the meetings in which an audio address with the IP of `sender` is
\* registered
AudioMeetingsOfIp(sender) ==
  {m \in DictKeys(meet_audio_addrs) : \E a \in DictGet(meet_audio_addrs, m) : a[1] = sender[1]}

\* C16 (as claimed): a non-empty audio datagram from S, whose IP matches a
\* registered audio address, is forwarded unchanged to every audio address
\* of one meeting that holds S's IP, S excepted (and those excepted that
\* refuse datagrams), and to no address outside that meeting.
C16_AudioStaysInOneMeeting ==
  [][\A c \in Conns :
       AudioStep(c) /\ audio_sent'.data # <<>> /\ AudioMeetingsOfIp(AudioAddr(c)) # {} =>
         \E m \in AudioMeetingsOfIp(AudioAddr(c)) :
           audio_sent'.dsts = (DictGet(meet_audio_addrs, m) \ {AudioAddr(c)}) \ unreachable]_vars

(***************************************************************************)
(* Outbound frame ids: c1, c2 and c3 join meeting m1 once; c1 and c2 send  *)
(* one frame each, and the clock runs.                                     *)
(***************************************************************************)
CameraSenders == {"c1", "c2"}

\* the serialised frame of client c: the pickles of two clients differ
FrameOf(c) == [i \in 1..(MAX_UDP_PAYLOAD + 1) |-> IF i = 1 THEN 1 ELSE VidPortOf(c) + 1]

NextIds ==
  \/ \E c \in Conns : pc[c] = "new" /\ ClientConnect(c, "m1")
  \/ \E c \in Conns : HandlerHandshake(c)
  \/ \E c \in CameraSenders :
       client_fid[c] = 0 /\ ClientSendFrameUpTo(c, FrameOf(c), MaxFrames + 1)
  \/ \E d \in video_net : VideoRecv(d)
  \/ VideoFallback
  \/ VideoRelay
  \/ Sweep
  \/ Tick

SpecIds == Init /\ [][NextIds]_vars

\* C17 (as claimed): the frame a relay pass sends to a peer carries another
\* outbound frame id than the frame the pass before it sent to that peer,
\* so that the peer's key (server address, frame id) keeps the fragments of
\* the two frames apart.  (Two passes with equal ids read the clock at the
\* same value, so both frames are in the peer's window.)
C17_OutboundIdsDiffer ==
  [][RelayStep =>
       \A d \in video_sent, e \in video_sent' : d.dst = e.dst => d.fid # e.fid]_vars

(***************************************************************************)
(* Buffers in the long run: c1 joins meeting m1 and sends a frame, UDP     *)
(* loses datagrams, and a sender goes on sending fragments on the key of   *)
(* that frame for as long as it likes.  Time is unbounded here: instead of *)
(* the clock counting up, the timestamps and the sweeper's next run move   *)
(* down, which leaves every difference the code computes as it is.         *)
(***************************************************************************)
\* a timestamp one second further in the past; beyond the TTL all ages are
\* the same to line 65
OneSecondOlder(ts, t) ==
  IF ts - 1 < t - FRAME_TTL - 1 THEN t - FRAME_TTL - 1 ELSE ts - 1

\* a second passes (the sweeper is never more than an instant late)
TickOn ==
  /\ now < next_sweep
  /\ next_sweep' = next_sweep - 1
  /\ video_reassembly' =
       [k \in DOMAIN video_reassembly |->
          [video_reassembly[k] EXCEPT !.ts = OneSecondOlder(@, now)]]
  /\ UNCHANGED <<regVars, netVars, threadVars, connVars, chatVars, now>>
  /\ UNCHANGED <<vl_pc, vl_pkt, vl_payload, vl_meet, video_net, video_sent,
                 client_fid, n_frames, n_stray>>

ResentDatagram(c, fid, total, idx) ==
  [src |-> VideoAddr(c), fid |-> fid, total |-> total, idx |-> idx, data |-> <<0>>]

\* one more fragment on the key of the frame client c sent last; any
\* program can send datagrams to the video port, as often as it likes
Resend(c, total, idx) ==
  /\ client_fid[c] > 0
  /\ video_net' = video_net \cup {ResentDatagram(c, client_fid[c], total, idx)}
  /\ UNCHANGED <<regVars, timeVars, netVars, threadVars, connVars, chatVars>>
  /\ UNCHANGED <<video_reassembly, vl_pc, vl_pkt, vl_payload, vl_meet, video_sent,
                 client_fid, n_frames, n_stray>>

\* every datagram that can be in flight here
LiveDatagrams ==
  UNION {FrameDatagrams(VideoAddr("c1"), f, PickledFrame)
           \cup {ResentDatagram("c1", f, NumFragments(PickledFrame), i) : i \in StrayIdxs}
         : f \in 1..(MaxFrames + 1)}

NextLive ==
  \/ \E c \in {"c1"} : pc[c] = "new" /\ ClientConnect(c, "m1")
  \/ \E c \in {"c1"} : HandlerHandshake(c)
  \/ \E c \in {"c1"} : ClientSendFrame(c, PickledFrame)
  \/ \E d \in video_net : DropDatagram(d)
  \/ \E c \in {"c1"}, i \in StrayIdxs : Resend(c, NumFragments(PickledFrame), i)
  \/ \E d \in video_net : VideoRecv(d)
  \/ VideoFallback
  \/ VideoRelay
  \/ Sweep
  \/ TickOn

\* the clock runs on; the listener finishes every pass and receives every
\* datagram that waits in the socket's queue; the sweeper, which needs
\* reassembly_lock, gets the lock again and again
SpecLive ==
  /\ Init /\ [][NextLive]_vars
  /\ WF_vars(TickOn) /\ SF_vars(Sweep)
  /\ WF_vars(VideoFallback) /\ WF_vars(VideoRelay)
  /\ \A d \in LiveDatagrams : SF_vars(VideoRecv(d))

\* the reassembly keys of the clients' frames
FrameKeys == {<<VideoAddr(c), f>> : c \in Conns, f \in 1..(MaxFrames + 1)}

\* C18 (as claimed): a fragment buffer that exists is removed in the end,
\* whatever fragments the senders keep sending.
C18_BuffersAreRemoved ==
  \A k \in FrameKeys :
    (k \in DOMAIN video_reassembly) ~> (k \notin DOMAIN video_reassembly)

\* the meetings that have a connected participant: the meeting ids under
\* which the handlers of the registered connections registered them
LiveMeetings == {meet_id[c] : c \in {p \in Conns : Registered(p)}}

\* C19 (as claimed): the keys of the participant map are the meetings that
\* have a connected participant; no key maps to an empty participant list
\* or an empty address set; and nothing of a meeting without participants
\* is left in the address sets or in the reverse index.
C19_MeetingLivesWithItsParticipants ==
  /\ DOMAIN meet_general_clients = LiveMeetings
  /\ \A m \in DOMAIN meet_general_clients : meet_general_clients[m] # <<>>
  /\ \A m \in DictKeys(meet_video_addrs) :
       DictGet(meet_video_addrs, m) # {} /\ m \in LiveMeetings
  /\ \A m \in DictKeys(meet_audio_addrs) :
       DictGet(meet_audio_addrs, m) # {} /\ m \in LiveMeetings
  /\ \A a \in DOMAIN udp_to_meet : udp_to_meet[a] \in LiveMeetings

\* the addresses with IP ip that are left in an index
AddrsOfIp(ip) ==
  {a \in UNION {DictGet(meet_video_addrs, m) : m \in DictKeys(meet_video_addrs)}
         \cup UNION {DictGet(meet_audio_addrs, m) : m \in DictKeys(meet_audio_addrs)}
         \cup DOMAIN udp_to_meet \cup DOMAIN udp_to_user : a[1] = ip}

\* C20 (as claimed): when a connection with source IP X that was registered
\* under a meeting id is deregistered, no address with IP X is left in the
\* video or audio address set of any meeting or in a reverse map; when
\* nothing was registered for the connection, the step changes no index.
C20_DeregistrationClearsTheIp ==
  [][\A c \in Conns :
       /\ DeregisterStep(c) /\ Registered(c) /\ Truthy(meet_id[c]) => AddrsOfIp(IpOf(c))' = {}
       /\ DeregisterStep(c) /\ ~Registered(c) => UNCHANGED regVars]_vars

(***************************************************************************)
(* Re-fragmentation: c1 and c3 join meeting m1 once; c1's address sends    *)
(* one frame, cut by the client or cut into longer parts by another        *)
(* program; the receiving client reassembles what the relay sends.         *)
(***************************************************************************)
NextRefrag ==
  \/ \E c \in {"c1", "c3"} : pc[c] = "new" /\ ClientConnect(c, "m1")
  \/ \E c \in {"c1", "c3"} : HandlerHandshake(c)
  \/ \E data \in Payloads : ClientSendFrame("c1", data)
  \/ \E data \in BigPayloads : SendBigFrame("c1", data)
  \/ \E d \in video_net : VideoRecv(d)
  \/ VideoFallback
  \/ VideoRelay

SpecRefrag == Init /\ [][NextRefrag]_vars

\* client.py line 388: the receiver's key is (src, frame_id), src being the
\* server's video socket
AsReceived(d) ==
  [src |-> <<"server", 0>>, fid |-> d.fid, total |-> d.total, idx |-> d.idx, data |-> d.data]

RECURSIVE ReceiverOutcomes(_, _)
\* client.py lines 389-399: the payloads the receiver reconstructs from the
\* datagrams ds, over all the orders in which they can arrive
ReceiverOutcomes(tab, ds) ==
  UNION {LET r == AsReceived(d)
             entry == EntryAfterStore(tab, r, 0)
         IN IF Emits(entry)
            THEN {Reassemble(entry)} \cup ReceiverOutcomes(FnDel(tab, KeyOf(r)), ds \ {d})
            ELSE ReceiverOutcomes(FnSet(tab, KeyOf(r), entry), ds \ {d})
         : d \in ds}

\* the datagrams a pass sent to one peer
SentToPeer(sent, peer) == {d \in sent : d.dst = peer}

\* the peers a pass sends to (lines 196-199), those left out to which a
\* sendto raises
RelayTargets ==
  (VideoPeers(meet_video_addrs, vl_meet) \ {vl_pkt.src}) \ unreachable

RECURSIVE ConcatByIdx(_, _, _)
\* the parts of the datagrams ds with indices i..total-1, in index order
ConcatByIdx(ds, i, total) ==
  IF i >= total THEN <<>>
  ELSE (CHOOSE d \in ds : d.idx = i).data \o ConcatByIdx(ds, i + 1, total)

\* what C21 says of the datagrams ds that payload_bytes was cut into
LosslessRoundTrip(ds, payload_bytes) ==
  LET L == Len(payload_bytes) IN
  \E total \in 1..L :
    /\ total * MAX_UDP_PAYLOAD >= L
    /\ (total - 1) * MAX_UDP_PAYLOAD < L
    /\ Cardinality(ds) = total
    /\ Cardinality({d.fid : d \in ds}) = 1
    /\ \A d \in ds : d.total = total /\ Len(d.data) <= MAX_UDP_PAYLOAD
    /\ {d.idx : d \in ds} = 0..(total - 1)
    /\ ConcatByIdx(ds, 0, total) = payload_bytes
    /\ ReceiverOutcomes(<<>>, ds) = {payload_bytes}

\* C21 (as claimed): for every reconstructed payload of length L > 0 the
\* relay sends each peer ceil(L / MAX_UDP_PAYLOAD) datagrams with one frame
\* id, the same total, the indices 0..total-1 and parts of at most
\* MAX_UDP_PAYLOAD, whose concatenation in index order is the payload, and
\* the receiver's reassembly of them yields the payload.
C21_RefragmentationRoundTrip ==
  [][RelayStep /\ Len(vl_payload) > 0 =>
       \A peer \in RelayTargets :
         LosslessRoundTrip(SentToPeer(video_sent', peer), vl_payload)]_vars

\* C21 (amended): the same, for every reconstructed payload whose number of
\* parts fits the 16-bit total field of the header.
C21_RefragmentationRoundTripInRange ==
  [][RelayStep /\ Len(vl_payload) > 0 /\ ~PackRaises(vl_payload) =>
       \A peer \in RelayTargets :
         LosslessRoundTrip(SentToPeer(video_sent', peer), vl_payload)]_vars

\* a payload that arrived in one long part has been sent on to c3 in two
\* parts
C21_Witness ==
  /\ vl_pc = "idle"
  /\ Cardinality(SentToPeer(video_sent, VideoAddr("c3"))) = 2
  /\ \E d \in video_sent : Len(d.data) < MAX_UDP_PAYLOAD
  /\ client_fid["c1"] = 1
  /\ ReceiverOutcomes(<<>>, video_sent) \in {{p} : p \in BigPayloads}

\* the address matches no registered video address, neither exactly nor by
\* its IP
MatchesNothing(addr) ==
  /\ addr \notin DOMAIN udp_to_meet
  /\ \A m \in DictKeys(meet_video_addrs) : \A a \in DictGet(meet_video_addrs, m) : a[1] # addr[1]

\* the address is registered in a meeting that has no other video address
AloneInItsMeeting(addr) ==
  /\ MeetingsOf(addr) # {}
  /\ \A m \in MeetingsOf(addr) : DictGet(meet_video_addrs, m) = {addr}

\* C22 (as claimed): when a frame completes, its buffer is removed from the
\* reassembly map; and when its sender matches no registered video address,
\* or is registered in a meeting that has no other video address, the pass
\* sends no datagram.
C22_NoPeersNoDatagrams ==
  [][/\ EmitStep => KeyOf(vl_pkt') \notin DOMAIN video_reassembly'
     /\ GiveUpStep => UNCHANGED video_sent
     /\ RelayStep /\ (MatchesNothing(vl_pkt.src) \/ AloneInItsMeeting(vl_pkt.src)) =>
          video_sent' = {}]_vars

\* the step in which the sweeper runs: its next run moves on
SweepStep == next_sweep' > next_sweep

\* a step in which a second passes, on either clock
TimeStep == now' > now \/ next_sweep' < next_sweep

\* seconds since the buffer of key k was touched last
Age(k) == now - video_reassembly[k].ts

C24_LifeCountsFromCreation ==
  [][now' = now =>
       \A k \in DOMAIN video_reassembly \cap DOMAIN video_reassembly' :
         video_reassembly'[k].ts = video_reassembly[k].ts]_vars

\* C25: the total a buffer records is the one of the datagram that created
\* it; a later datagram for the key, whatever total it carries, has its
\* part stored under its index and leaves the recorded total as it is.
C25_TotalFixedByFirstFragment ==
  [][/\ \A k \in DOMAIN video_reassembly \cap DOMAIN video_reassembly' :
          video_reassembly'[k].total = video_reassembly[k].total
     /\ \A d \in video_net :
          video_net' = video_net \ {d} /\ KeyOf(d) \in DOMAIN video_reassembly' =>
            /\ KeyOf(d) \notin DOMAIN video_reassembly =>
                 video_reassembly'[KeyOf(d)].total = d.total
            /\ d.idx \in DictKeys(video_reassembly'[KeyOf(d)].parts)
            /\ DictGet(video_reassembly'[KeyOf(d)].parts, d.idx) = d.data]_vars

\* a buffer created by a fragment of a three-fragment frame holds the part
\* of a datagram that carried a smaller total
C25_Witness ==
  \E k \in DOMAIN video_reassembly :
    /\ video_reassembly[k].total = NumFragments([i \in 1..MaxPayloadLen |-> i])
    /\ video_reassembly[k].total > 2
    /\ \E i \in 1..Len(video_reassembly[k].parts) : video_reassembly[k].parts[i].v = <<0>>

\* the number a message carries in the order of sending: chat messages and
\* file headers are numbered as the clients send them
SeqOf(m) == IF m.msg_type = "chat" THEN m.message ELSE m.filename

\* the positions in a socket's log of the messages written by handler c
MsgsFrom(log, c) == {j \in 1..Len(log) : log[j].src = c /\ log[j].msg # NoMsg}

\* the position of the next message of handler c after position j, or the
\* position after the log's end
NextMsgFrom(log, j, c) ==
  IF \E k \in MsgsFrom(log, c) : k > j
  THEN CHOOSE k \in MsgsFrom(log, c) : k > j /\ \A x \in MsgsFrom(log, c) : x > j => k <= x
  ELSE Len(log) + 1

\* the body bytes a file of size s has up to its n-th
BodyPrefix(n) == [i \in 1..n |-> i]

\* C26: on every peer's socket, what one participant's handler writes is in
\* the order the participant sent it: its messages in sending order, and
\* after a file header the bytes of that file's body in order, all of them
\* before the participant's next message; no body byte comes without its
\* header.
C26_PerPeerOrder ==
  \A p \in Conns : \A c \in Conns :
    LET log == sock_log[p] IN
    /\ \A j, k \in MsgsFrom(log, c) : j < k => SeqOf(log[j].msg) < SeqOf(log[k].msg)
    /\ \A j \in 1..Len(log) :
         log[j].src = c /\ log[j].chunk # <<>> => \E h \in MsgsFrom(log, c) : h < j
    /\ \A j \in MsgsFrom(log, c) :
         LET k == NextMsgFrom(log, j, c)
             body == BodyFrom(SubSeq(log, 1, k - 1), j + 1, c)
         IN IF log[j].msg.msg_type = "file"
            THEN /\ Len(body) <= log[j].msg.size
                 /\ body = BodyPrefix(Len(body))
                 /\ k <= Len(log) => Len(body) = log[j].msg.size
            ELSE body = <<>>

\* a peer has been written a file header of c1, the whole body of that
\* file, and then the chat message c1 sent after the file
C26_Witness ==
  \E p \in Conns \ {"c1"} :
    \E j, k \in MsgsFrom(sock_log[p], "c1") :
      /\ j < k
      /\ sock_log[p][j].msg.msg_type = "file"
      /\ sock_log[p][j].msg.size = MaxFileSize
      /\ sock_log[p][k].msg.msg_type = "chat"
      /\ BodyFrom(SubSeq(sock_log[p], 1, k - 1), j + 1, "c1") = BodyPrefix(MaxFileSize)

(***************************************************************************)
(* The threads line by line: handle_general (72-158), video_udp_listener   *)
(* (161-213), audio_udp_listener (216-234), accept_general_tcp (236-243),  *)
(* cleanup_old_reassembly (59-69) and main's shutdown (269-282).  A label  *)
(* lNNN is the line the thread is about to run.                            *)
(***************************************************************************)
\* what the line-by-line steps leave alone
threadQuiet == <<video_reassembly, vl_pc, vl_payload, video_net, video_sent, client_fid,
                 n_frames, n_stray, timeVars, netVars, pc, inq, eof, n_joins, msg,
                 remaining, sock_log, n_sends>>

\* a lock that stays with the thread that leaves its `with` block
KeepLock(t) == t

\* leaving a `with lock:` block releases the lock
Release(t) == Free

\* thread t goes on at line l
Goto(t, l) == t_pc' = [t_pc EXCEPT ![t] = l]

\* a step of thread t from line `from` to line `to` that changes nothing
\* but the thread's position
Move(t, from, to) ==
  /\ ~main_done
  /\ t_pc[t] = from
  /\ Goto(t, to)
  /\ UNCHANGED <<regVars, threadQuiet, vl_pkt, vl_meet, vl_peers, meet_id, peers,
                 dict_lock, reassembly_lock, running, main_done>>

\* `with dict_lock:` at line `from`: wait until the lock is free, take it
AcquireDict(t, from, to) ==
  /\ ~main_done
  /\ t_pc[t] = from
  /\ dict_lock = Free
  /\ dict_lock' = t
  /\ Goto(t, to)
  /\ UNCHANGED <<regVars, threadQuiet, vl_pkt, vl_meet, vl_peers, meet_id, peers,
                 reassembly_lock, running, main_done>>

\* `with reassembly_lock:` at line `from`
AcquireReassembly(t, from, to) ==
  /\ ~main_done
  /\ t_pc[t] = from
  /\ reassembly_lock = Free
  /\ reassembly_lock' = t
  /\ Goto(t, to)
  /\ UNCHANGED <<regVars, threadQuiet, vl_pkt, vl_meet, vl_peers, meet_id, peers,
                 dict_lock, running, main_done>>

\* the `while running:` at the top of a loop
LoopTest(t, top, body, after) ==
  /\ ~main_done
  /\ t_pc[t] = top
  /\ Goto(t, IF running THEN body ELSE after)
  /\ UNCHANGED <<regVars, threadQuiet, vl_pkt, vl_meet, vl_peers, meet_id, peers,
                 dict_lock, reassembly_lock, running, main_done>>

Accept_l239(c) ==
  /\ ~main_done
  /\ t_pc["accept"] = "l239"
  /\ t_pc[c] = "unborn"
  /\ t_pc' = [t_pc EXCEPT !["accept"] = "l237", ![c] = "l76"]
  /\ UNCHANGED <<regVars, threadQuiet, vl_pkt, vl_meet, vl_peers, meet_id, peers,
                 dict_lock, reassembly_lock, running, main_done>>

\* lines 76-85: the handshake arrives and the handler goes on to register,
\* or nothing whole arrives and `return` takes it to the finally block
Handler_l76(c, whole) ==
  /\ ~main_done
  /\ t_pc[c] = "l76"
  /\ meet_id' = [meet_id EXCEPT ![c] = IF whole THEN "m1" ELSE None]
  /\ Goto(c, IF whole THEN "l87" ELSE "l129")
  /\ UNCHANGED <<regVars, threadQuiet, vl_pkt, vl_meet, vl_peers, peers,
                 dict_lock, reassembly_lock, running, main_done>>

\* line 88
Handler_l88(c) ==
  /\ ~main_done
  /\ t_pc[c] = "l88"
  /\ meet_general_clients' = GeneralAfterJoin(meet_general_clients, meet_id[c], c, UserOf(c))
  /\ Goto(c, "l90")
  /\ UNCHANGED <<meet_video_addrs, meet_audio_addrs, udp_to_meet, udp_to_user>>
  /\ UNCHANGED <<threadQuiet, vl_pkt, vl_meet, vl_peers, meet_id, peers,
                 dict_lock, reassembly_lock, running, main_done>>

\* line 90
Handler_l90(c) ==
  /\ ~main_done
  /\ t_pc[c] = "l90"
  /\ meet_video_addrs' = AddrsAfterJoin(meet_video_addrs, meet_id[c], IpOf(c), VidPortOf(c))
  /\ Goto(c, "l91")
  /\ UNCHANGED <<meet_general_clients, meet_audio_addrs, udp_to_meet, udp_to_user>>
  /\ UNCHANGED <<threadQuiet, vl_pkt, vl_meet, vl_peers, meet_id, peers,
                 dict_lock, reassembly_lock, running, main_done>>

\* line 91
Handler_l91(c) ==
  /\ ~main_done
  /\ t_pc[c] = "l91"
  /\ udp_to_meet' = ReverseAfterJoin(udp_to_meet, IpOf(c), VidPortOf(c), meet_id[c])
  /\ Goto(c, "l92")
  /\ UNCHANGED <<meet_general_clients, meet_video_addrs, meet_audio_addrs, udp_to_user>>
  /\ UNCHANGED <<threadQuiet, vl_pkt, vl_meet, vl_peers, meet_id, peers,
                 dict_lock, reassembly_lock, running, main_done>>

\* line 92
Handler_l92(c) ==
  /\ ~main_done
  /\ t_pc[c] = "l92"
  /\ udp_to_user' = ReverseAfterJoin(udp_to_user, IpOf(c), VidPortOf(c), UserOf(c))
  /\ Goto(c, "l94")
  /\ UNCHANGED <<meet_general_clients, meet_video_addrs, meet_audio_addrs, udp_to_meet>>
  /\ UNCHANGED <<threadQuiet, vl_pkt, vl_meet, vl_peers, meet_id, peers,
                 dict_lock, reassembly_lock, running, main_done>>

\* line 94, and the end of the `with` block of line 87
Handler_l94(c) ==
  /\ ~main_done
  /\ t_pc[c] = "l94"
  /\ meet_audio_addrs' = AddrsAfterJoin(meet_audio_addrs, meet_id[c], IpOf(c), AudPortOf(c))
  /\ dict_lock' = Release(c)
  /\ Goto(c, "l99")
  /\ UNCHANGED <<meet_general_clients, meet_video_addrs, udp_to_meet, udp_to_user>>
  /\ UNCHANGED <<threadQuiet, vl_pkt, vl_meet, vl_peers, meet_id, peers,
                 reassembly_lock, running, main_done>>

\* line 104, and the end of the `with` block
Handler_l104(c) ==
  /\ ~main_done
  /\ t_pc[c] = "l104"
  /\ peers' = [peers EXCEPT ![c] = PeersSnapshot(meet_general_clients, meet_id[c])]
  /\ dict_lock' = Release(c)
  /\ Goto(c, "l105")
  /\ UNCHANGED <<regVars, threadQuiet, vl_pkt, vl_meet, vl_peers, meet_id,
                 reassembly_lock, running, main_done>>

\* lines 131-134
Handler_l130(c) ==
  /\ ~main_done
  /\ t_pc[c] = "l130"
  /\ meet_general_clients' = GeneralAfterLeave(meet_general_clients, meet_id[c], TcpAddr(c))
  /\ Goto(c, "l137")
  /\ UNCHANGED <<meet_video_addrs, meet_audio_addrs, udp_to_meet, udp_to_user>>
  /\ UNCHANGED <<threadQuiet, vl_pkt, vl_meet, vl_peers, meet_id, peers,
                 dict_lock, reassembly_lock, running, main_done>>

\* lines 137-142
Handler_l137(c) ==
  /\ ~main_done
  /\ t_pc[c] = "l137"
  /\ meet_video_addrs' = AddrsAfterLeave(meet_video_addrs, meet_id[c], IpOf(c))
  /\ Goto(c, "l143")
  /\ UNCHANGED <<meet_general_clients, meet_audio_addrs, udp_to_meet, udp_to_user>>
  /\ UNCHANGED <<threadQuiet, vl_pkt, vl_meet, vl_peers, meet_id, peers,
                 dict_lock, reassembly_lock, running, main_done>>

\* lines 143-148
Handler_l143(c) ==
  /\ ~main_done
  /\ t_pc[c] = "l143"
  /\ meet_audio_addrs' = AddrsAfterLeave(meet_audio_addrs, meet_id[c], IpOf(c))
  /\ Goto(c, "l150")
  /\ UNCHANGED <<meet_general_clients, meet_video_addrs, udp_to_meet, udp_to_user>>
  /\ UNCHANGED <<threadQuiet, vl_pkt, vl_meet, vl_peers, meet_id, peers,
                 dict_lock, reassembly_lock, running, main_done>>

\* lines 150-153, and the end of the `with` block of line 129
Handler_l150(c) ==
  /\ ~main_done
  /\ t_pc[c] = "l150"
  /\ udp_to_meet' = ReverseAfterLeave(udp_to_meet, DOMAIN udp_to_meet, meet_id[c], IpOf(c))
  /\ udp_to_user' = ReverseAfterLeave(udp_to_user, DOMAIN udp_to_meet, meet_id[c], IpOf(c))
  /\ dict_lock' = Release(c)
  /\ Goto(c, "l155")
  /\ UNCHANGED <<meet_general_clients, meet_video_addrs, meet_audio_addrs>>
  /\ UNCHANGED <<threadQuiet, vl_pkt, vl_meet, vl_peers, meet_id, peers,
                 reassembly_lock, running, main_done>>

\* the video addresses datagrams come from
VideoSenders == {VideoAddr(c) : c \in HandlerThreads}

\* lines 164-170: a datagram of `sender` comes in
Video_l164(sender) ==
  /\ ~main_done
  /\ t_pc["video"] = "l164"
  /\ vl_pkt' = [NoPkt EXCEPT !.src = sender]
  /\ Goto("video", "l171")
  /\ UNCHANGED <<regVars, threadQuiet, vl_meet, vl_peers, meet_id, peers,
                 dict_lock, reassembly_lock, running, main_done>>

\* lines 172-181: the fragment is stored; it completes its buffer or it
\* does not, and then the `with` block ends
Video_l172(complete) ==
  /\ ~main_done
  /\ t_pc["video"] = "l172"
  /\ reassembly_lock' = IF complete THEN reassembly_lock ELSE Release("video")
  /\ Goto("video", IF complete THEN "l183" ELSE "l162")
  /\ UNCHANGED <<regVars, threadQuiet, vl_pkt, vl_meet, vl_peers, meet_id, peers,
                 dict_lock, running, main_done>>

\* line 183: meet = udp_to_meet.get(sender), inside `with reassembly_lock`
\* and outside every `with dict_lock`
Video_l183 ==
  /\ ~main_done
  /\ t_pc["video"] = "l183"
  /\ vl_meet' = LookupExact(udp_to_meet, vl_pkt.src)
  /\ Goto("video", IF Truthy(LookupExact(udp_to_meet, vl_pkt.src)) THEN "l195" ELSE "l186")
  /\ UNCHANGED <<regVars, threadQuiet, vl_pkt, vl_peers, meet_id, peers,
                 dict_lock, reassembly_lock, running, main_done>>

\* lines 187-193: the scan by IP and the end of its `with dict_lock`; with
\* no meeting, `continue` leaves the `with reassembly_lock` block too
Video_l187 ==
  /\ ~main_done
  /\ t_pc["video"] = "l187"
  /\ vl_meet' = LookupByIp(meet_video_addrs, vl_pkt.src[1])
  /\ dict_lock' = Release("video")
  /\ reassembly_lock' = IF Truthy(LookupByIp(meet_video_addrs, vl_pkt.src[1]))
                        THEN reassembly_lock ELSE Release("video")
  /\ Goto("video", IF Truthy(LookupByIp(meet_video_addrs, vl_pkt.src[1])) THEN "l195" ELSE "l162")
  /\ UNCHANGED <<regVars, threadQuiet, vl_pkt, vl_peers, meet_id, peers, running, main_done>>

\* line 196 and the end of its `with dict_lock`
Video_l196 ==
  /\ ~main_done
  /\ t_pc["video"] = "l196"
  /\ vl_peers' = VideoPeers(meet_video_addrs, vl_meet)
  /\ dict_lock' = Release("video")
  /\ Goto("video", "l197")
  /\ UNCHANGED <<regVars, threadQuiet, vl_pkt, vl_meet, meet_id, peers,
                 reassembly_lock, running, main_done>>

\* lines 197-211: the sends, still inside `with reassembly_lock`, which
\* ends after them
Video_l197 ==
  /\ ~main_done
  /\ t_pc["video"] = "l197"
  /\ reassembly_lock' = Release("video")
  /\ vl_pkt' = NoPkt
  /\ vl_meet' = None
  /\ vl_peers' = {}
  /\ Goto("video", "l162")
  /\ UNCHANGED <<regVars, threadQuiet, meet_id, peers, dict_lock, running, main_done>>

\* lines 224-232: the scan of meet_audio_addrs and the sends, all inside
\* `with dict_lock`, which ends after them
Audio_l224 ==
  /\ ~main_done
  /\ t_pc["audio"] = "l224"
  /\ dict_lock' = Release("audio")
  /\ Goto("audio", "l217")
  /\ UNCHANGED <<regVars, threadQuiet, vl_pkt, vl_meet, vl_peers, meet_id, peers,
                 reassembly_lock, running, main_done>>

\* lines 64-68: the scan and the deletions, and the end of the `with` block
Sweeper_l64 ==
  /\ ~main_done
  /\ t_pc["sweeper"] = "l64"
  /\ reassembly_lock' = Release("sweeper")
  /\ Goto("sweeper", "l69")
  /\ UNCHANGED <<regVars, threadQuiet, vl_pkt, vl_meet, vl_peers, meet_id, peers,
                 dict_lock, running, main_done>>

\* the line at which a thread is blocked in a receive on a socket that
\* main closes at shutdown (accept, line 239; recvfrom, lines 164 and 219)
BlockedOnClosedSocket(t) ==
  \/ t = "accept" /\ t_pc[t] = "l239"
  \/ t = "video" /\ t_pc[t] = "l164"
  \/ t = "audio" /\ t_pc[t] = "l219"

\* the receive of a blocked thread raises once its socket has been closed,
\* where the platform wakes it: the video and audio listeners log it and
\* test `running` again (lines 212 and 233), the accept loop breaks (243)
RecvRaises(t) ==
  /\ ~main_done
  /\ ~running
  /\ BlockedOnClosedSocket(t)
  /\ Goto(t, CASE t = "video" -> "l162" [] t = "audio" -> "l217" [] OTHER -> "done")
  /\ UNCHANGED <<regVars, threadQuiet, vl_pkt, vl_meet, vl_peers, meet_id, peers,
                 dict_lock, reassembly_lock, running, main_done>>

\* lines 274-281: KeyboardInterrupt; the finally block clears `running` and
\* closes the listening socket and the two UDP sockets
Shutdown ==
  /\ running
  /\ running' = FALSE
  /\ UNCHANGED <<regVars, threadQuiet, vl_pkt, vl_meet, vl_peers, meet_id, peers,
                 dict_lock, reassembly_lock, t_pc, main_done>>

\* line 282: main returns; every thread is a daemon thread (lines 264-267
\* and 240), so the process ends without waiting for any of them
MainReturns ==
  /\ ~running
  /\ ~main_done
  /\ main_done' = TRUE
  /\ UNCHANGED <<regVars, threadQuiet, vl_pkt, vl_meet, vl_peers, meet_id, peers,
                 dict_lock, reassembly_lock, t_pc, running>>

\* the steps of a thread that wait for nothing outside the server
Internal(t) ==
  \/ t = "accept" /\ LoopTest("accept", "l237", "l239", "done")
  \/ t = "sweeper" /\ (LoopTest("sweeper", "l60", "l63", "done") \/ Sweeper_l64 \/ Move("sweeper", "l69", "l60"))
  \/ t = "video" /\ (LoopTest("video", "l162", "l164", "done") \/ (\E b \in BOOLEAN : Video_l172(b)) \/ Video_l183
                      \/ Video_l187 \/ Video_l196 \/ Video_l197)
  \/ t = "audio" /\ (LoopTest("audio", "l217", "l219", "done") \/ Audio_l224)
  \/ t \in HandlerThreads /\
       (Handler_l88(t) \/ Handler_l90(t) \/ Handler_l91(t) \/ Handler_l92(t)
        \/ Handler_l94(t) \/ LoopTest(t, "l99", "l100", "l129") \/ Handler_l104(t) \/ Move(t, "l105", "l99")
        \/ Handler_l130(t) \/ Handler_l137(t) \/ Handler_l143(t) \/ Handler_l150(t)
        \/ Move(t, "l155", "done"))

\* the lock requests of a thread
LockRequest(t) ==
  \/ t = "sweeper" /\ AcquireReassembly("sweeper", "l63", "l64")
  \/ t = "video" /\ (AcquireReassembly("video", "l171", "l172") \/ AcquireDict("video", "l186", "l187") \/ AcquireDict("video", "l195", "l196"))
  \/ t = "audio" /\ AcquireDict("audio", "l223", "l224")
  \/ t \in HandlerThreads /\ (AcquireDict(t, "l87", "l88") \/ AcquireDict(t, "l103", "l104") \/ AcquireDict(t, "l129", "l130"))

\* the registry's writers and readers: the handlers of two connections,
\* the accept loop that starts them, and the two listeners
NextThreads ==
  \/ LoopTest("accept", "l237", "l239", "done")
  \/ \E c \in HandlerThreads : Accept_l239(c)
  \/ \E c \in HandlerThreads : \E whole \in BOOLEAN : Handler_l76(c, whole)
  \/ \E c \in HandlerThreads : \E whole \in BOOLEAN : Move(c, "l100", IF whole THEN "l103" ELSE "l129")
  \/ \E c \in HandlerThreads : AcquireDict(c, "l87", "l88")
  \/ \E c \in HandlerThreads : Handler_l88(c)
  \/ \E c \in HandlerThreads : Handler_l90(c)
  \/ \E c \in HandlerThreads : Handler_l91(c)
  \/ \E c \in HandlerThreads : Handler_l92(c)
  \/ \E c \in HandlerThreads : Handler_l94(c)
  \/ \E c \in HandlerThreads : LoopTest(c, "l99", "l100", "l129")
  \/ \E c \in HandlerThreads : AcquireDict(c, "l103", "l104")
  \/ \E c \in HandlerThreads : Handler_l104(c)
  \/ \E c \in HandlerThreads : Move(c, "l105", "l99")
  \/ \E c \in HandlerThreads : AcquireDict(c, "l129", "l130")
  \/ \E c \in HandlerThreads : Handler_l130(c)
  \/ \E c \in HandlerThreads : Handler_l137(c)
  \/ \E c \in HandlerThreads : Handler_l143(c)
  \/ \E c \in HandlerThreads : Handler_l150(c)
  \/ \E c \in HandlerThreads : Move(c, "l155", "done")
  \/ LoopTest("video", "l162", "l164", "done")
  \/ \E sender \in VideoSenders : Video_l164(sender)
  \/ AcquireReassembly("video", "l171", "l172")
  \/ \E complete \in BOOLEAN : Video_l172(complete)
  \/ Video_l183
  \/ AcquireDict("video", "l186", "l187")
  \/ Video_l187
  \/ AcquireDict("video", "l195", "l196")
  \/ Video_l196
  \/ Video_l197
  \/ LoopTest("audio", "l217", "l219", "done")
  \/ Move("audio", "l219", "l223")
  \/ AcquireDict("audio", "l223", "l224")
  \/ Audio_l224

SpecThreads == Init /\ [][NextThreads]_vars

\* the connection whose handler runs beside the sweeper and the listeners
ServedThreads == {"c1"}

\* every thread main starts and one connection's handler, while the
\* server runs
NextLocks ==
  \/ LoopTest("accept", "l237", "l239", "done")
  \/ \E c \in ServedThreads : Accept_l239(c)
  \/ \E c \in ServedThreads : \E whole \in BOOLEAN : Handler_l76(c, whole)
  \/ \E c \in ServedThreads : \E whole \in BOOLEAN : Move(c, "l100", IF whole THEN "l103" ELSE "l129")
  \/ \E c \in ServedThreads : AcquireDict(c, "l87", "l88")
  \/ \E c \in ServedThreads : Handler_l88(c)
  \/ \E c \in ServedThreads : Handler_l90(c)
  \/ \E c \in ServedThreads : Handler_l91(c)
  \/ \E c \in ServedThreads : Handler_l92(c)
  \/ \E c \in ServedThreads : Handler_l94(c)
  \/ \E c \in ServedThreads : LoopTest(c, "l99", "l100", "l129")
  \/ \E c \in ServedThreads : AcquireDict(c, "l103", "l104")
  \/ \E c \in ServedThreads : Handler_l104(c)
  \/ \E c \in ServedThreads : Move(c, "l105", "l99")
  \/ \E c \in ServedThreads : AcquireDict(c, "l129", "l130")
  \/ \E c \in ServedThreads : Handler_l130(c)
  \/ \E c \in ServedThreads : Handler_l137(c)
  \/ \E c \in ServedThreads : Handler_l143(c)
  \/ \E c \in ServedThreads : Handler_l150(c)
  \/ \E c \in ServedThreads : Move(c, "l155", "done")
  \/ LoopTest("video", "l162", "l164", "done")
  \/ \E c \in ServedThreads : Video_l164(VideoAddr(c))
  \/ AcquireReassembly("video", "l171", "l172")
  \/ \E complete \in BOOLEAN : Video_l172(complete)
  \/ Video_l183
  \/ AcquireDict("video", "l186", "l187")
  \/ Video_l187
  \/ AcquireDict("video", "l195", "l196")
  \/ Video_l196
  \/ Video_l197
  \/ LoopTest("audio", "l217", "l219", "done")
  \/ Move("audio", "l219", "l223")
  \/ AcquireDict("audio", "l223", "l224")
  \/ Audio_l224
  \/ LoopTest("sweeper", "l60", "l63", "done")
  \/ AcquireReassembly("sweeper", "l63", "l64")
  \/ Sweeper_l64
  \/ Move("sweeper", "l69", "l60")

\* every thread that can take a step on its own takes it in the end, and a
\* thread waiting for a lock that becomes free again and again gets it
ThreadsFair ==
  /\ \A t \in Threads : WF_vars(Internal(t))
  /\ \A t \in Threads \ {"accept"} : SF_vars(LockRequest(t))

SpecLocks == Init /\ [][NextLocks]_vars /\ ThreadsFair

\* the same threads, and the shutdown
NextShutdown ==
  \/ LoopTest("accept", "l237", "l239", "done")
  \/ \E c \in ServedThreads : Accept_l239(c)
  \/ \E c \in ServedThreads : \E whole \in BOOLEAN : Handler_l76(c, whole)
  \/ \E c \in ServedThreads : \E whole \in BOOLEAN : Move(c, "l100", IF whole THEN "l103" ELSE "l129")
  \/ \E c \in ServedThreads : AcquireDict(c, "l87", "l88")
  \/ \E c \in ServedThreads : Handler_l88(c)
  \/ \E c \in ServedThreads : Handler_l90(c)
  \/ \E c \in ServedThreads : Handler_l91(c)
  \/ \E c \in ServedThreads : Handler_l92(c)
  \/ \E c \in ServedThreads : Handler_l94(c)
  \/ \E c \in ServedThreads : LoopTest(c, "l99", "l100", "l129")
  \/ \E c \in ServedThreads : AcquireDict(c, "l103", "l104")
  \/ \E c \in ServedThreads : Handler_l104(c)
  \/ \E c \in ServedThreads : Move(c, "l105", "l99")
  \/ \E c \in ServedThreads : AcquireDict(c, "l129", "l130")
  \/ \E c \in ServedThreads : Handler_l130(c)
  \/ \E c \in ServedThreads : Handler_l137(c)
  \/ \E c \in ServedThreads : Handler_l143(c)
  \/ \E c \in ServedThreads : Handler_l150(c)
  \/ \E c \in ServedThreads : Move(c, "l155", "done")
  \/ LoopTest("video", "l162", "l164", "done")
  \/ \E c \in ServedThreads : Video_l164(VideoAddr(c))
  \/ AcquireReassembly("video", "l171", "l172")
  \/ \E complete \in BOOLEAN : Video_l172(complete)
  \/ Video_l183
  \/ AcquireDict("video", "l186", "l187")
  \/ Video_l187
  \/ AcquireDict("video", "l195", "l196")
  \/ Video_l196
  \/ Video_l197
  \/ LoopTest("audio", "l217", "l219", "done")
  \/ Move("audio", "l219", "l223")
  \/ AcquireDict("audio", "l223", "l224")
  \/ Audio_l224
  \/ LoopTest("sweeper", "l60", "l63", "done")
  \/ AcquireReassembly("sweeper", "l63", "l64")
  \/ Sweeper_l64
  \/ Move("sweeper", "l69", "l60")
  \/ \E t \in {"accept", "video", "audio"} : RecvRaises(t)
  \/ Shutdown
  \/ MainReturns

SpecShutdown == Init /\ [][NextShutdown]_vars /\ ThreadsFair

\* the lines at which a thread reads or writes one of the registry maps
RegistryLines ==
  {"l88", "l90", "l91", "l92", "l94", "l104", "l130", "l137", "l143", "l150",
   "l183", "l187", "l196", "l224"}

\* handler c has written or removed some of a participant's entries and
\* not yet the last of them
HalfWritten(c) == t_pc[c] \in {"l90", "l91", "l92", "l94", "l137", "l143", "l150"}

\* C27: a thread that is at a line reading or writing a registry map holds
\* dict_lock, and so no thread reads the registry while a handler is
\* halfway through a registration or a deregistration.
C27_RegistryUnderDictLock ==
  \A t \in Threads :
    t_pc[t] \in RegistryLines =>
      /\ dict_lock = t
      /\ \A c \in HandlerThreads \ {t} : ~HalfWritten(c)

\* the same for every line but the video listener's lookup of line 183
C27_AllButLine183 ==
  \A t \in Threads :
    t_pc[t] \in RegistryLines \ {"l183"} =>
      /\ dict_lock = t
      /\ \A c \in HandlerThreads \ {t} : ~HalfWritten(c)

\* the video listener looks the sender up while the sender's handler has
\* added the video address and not yet the reverse entry
C27_HalfViewSeen ==
  /\ t_pc["video"] = "l183"
  /\ \E c \in HandlerThreads :
       /\ t_pc[c] = "l91"
       /\ vl_pkt.src = VideoAddr(c)
       /\ VideoAddr(c) \in VideoPeers(meet_video_addrs, "m1")
       /\ LookupExact(udp_to_meet, vl_pkt.src) = None

\* thread t has left its loop and ended, or was never started
Exited(t) == t_pc[t] \in {"done", "unborn"}

\* C28: once main has cleared `running` and closed the listening socket and
\* the two UDP sockets, the sweeper, the video listener, the audio listener,
\* the accept loop and every connection handler leave their loops and end.
C28_ShutdownEndsEveryTask == (~running) ~> (\A t \in Threads : Exited(t))

\* the sweeper leaves its loop unless the process ends first
C28_SweeperLeaves == (~running) ~> (Exited("sweeper") \/ main_done)

\* a handler leaves its loop unless the process ends first
C28_HandlerLeaves == (~running) ~> (Exited("c1") \/ main_done)

\* the listeners and the accept loop leave their loops unless the process
\* ends first
C28_ListenersLeave ==
  (~running) ~> ((Exited("video") /\ Exited("audio") /\ Exited("accept")) \/ main_done)

\* thread t is at a `with dict_lock:` it has not entered yet
RequestsDict(t) == t_pc[t] \in {"l87", "l103", "l129", "l186", "l195", "l223"}

\* thread t is at a `with reassembly_lock:` it has not entered yet
RequestsReassembly(t) == t_pc[t] \in {"l63", "l171"}

\* no thread asks for reassembly_lock while it holds dict_lock, and only
\* the video listener asks for a lock while it holds one (dict_lock, inside
\* reassembly_lock)
LockOrder ==
  \A t \in Threads :
    /\ dict_lock = t => ~RequestsReassembly(t)
    /\ reassembly_lock = t /\ (RequestsDict(t) \/ dict_lock = t) => t = "video"
    /\ dict_lock = t => ~RequestsDict(t)
    /\ reassembly_lock = t => ~RequestsReassembly(t)

HasHeaderOf(p, c) ==
  LET h == LastMsgFrom(sock_log[p], c)
  IN IF h = 0 THEN FALSE ELSE sock_log[p][h].msg = msg[c]

\* the step in which handler c has received a whole chunk and relays it
ChunkRelayStep(c) == ChunkStep(c) /\ Len(inq[c]) >= ChunkSize(remaining[c])

\* C30: the peers of a file transfer are fixed when its header is
\* processed: the copy of the peers does not change during the body, a
\* body chunk is written on exactly the sockets the header was written on
\* (those the server has closed since excepted), and a connection that
\* registered in the meeting after the header was read gets no chunk.
C30_TransferPeersFixed ==
  [][\A c \in Conns :
       /\ pc[c] = "body" /\ pc'[c] = "body" => peers'[c] = peers[c]
       /\ ChunkRelayStep(c) =>
            /\ {p \in Conns : NewWrites(p) # <<>>} = {p \in Conns \ {c} : HasHeaderOf(p, c)}
            /\ \A p \in Conns :
                 Registered(p) /\ p \notin CopiedPeers(peers[c]) => NewWrites(p) = <<>>]_vars

\* c1 relays a body to c3; c2 registered in the meeting after the header
\* was read, its chat message reached c3 between the header and a chunk,
\* and c2 has nothing of the transfer
C30_Witness ==
  /\ pc["c1"] = "body"
  /\ Registered("c2") /\ meet_id["c2"] = meet_id["c1"]
  /\ "c2" \notin CopiedPeers(peers["c1"])
  /\ \A j \in 1..Len(sock_log["c2"]) : sock_log["c2"][j].src # "c1"
  /\ \E j, k, l \in 1..Len(sock_log["c3"]) :
       /\ j < k /\ k < l
       /\ sock_log["c3"][j].src = "c1" /\ sock_log["c3"][j].msg = msg["c1"]
       /\ sock_log["c3"][k].src = "c2"
       /\ sock_log["c3"][l].src = "c1" /\ sock_log["c3"][l].chunk # <<>>

\* connection p is in the participant list of meeting m
ParticipantIn(mgc, m, p) ==
  IF m \in DOMAIN mgc THEN \E i \in 1..Len(mgc[m]) : mgc[m][i].conn = p ELSE FALSE

\* the reverse entry of address a in reverse map f, or None
ReverseEntry(f, a) == IF a \in DOMAIN f THEN f[a] ELSE None

\* C31: when one connection is deregistered, every other connection that is
\* still registered keeps its participant entry, its video and audio
\* addresses in its meeting's address sets and its entries in the two
\* reverse maps, whether or not it shares the IP address or the meeting of
\* the connection that left.
C31_DeregistrationTouchesNobodyElse ==
  [][\A c \in Conns :
       DeregisterStep(c) =>
         \A p \in Conns \ {c} :
           Registered(p) =>
             /\ ParticipantIn(meet_general_clients, meet_id[p], p)
                  => ParticipantIn(meet_general_clients', meet_id[p], p)
             /\ VideoAddr(p) \in VideoPeers(meet_video_addrs, meet_id[p])
                  => VideoAddr(p) \in VideoPeers(meet_video_addrs', meet_id[p])
             /\ AudioAddr(p) \in VideoPeers(meet_audio_addrs, meet_id[p])
                  => AudioAddr(p) \in VideoPeers(meet_audio_addrs', meet_id[p])
             /\ ReverseEntry(udp_to_meet', VideoAddr(p)) = ReverseEntry(udp_to_meet, VideoAddr(p))
             /\ ReverseEntry(udp_to_user', VideoAddr(p)) = ReverseEntry(udp_to_user, VideoAddr(p))]_vars

\* the same for the connections on another IP address than the one that
\* left
C31_OtherIpsUntouched ==
  [][\A c \in Conns :
       DeregisterStep(c) =>
         \A p \in Conns \ {c} :
           Registered(p) /\ IpOf(p) # IpOf(c) =>
             /\ ParticipantIn(meet_general_clients, meet_id[p], p)
                  => ParticipantIn(meet_general_clients', meet_id[p], p)
             /\ VideoAddr(p) \in VideoPeers(meet_video_addrs, meet_id[p])
                  => VideoAddr(p) \in VideoPeers(meet_video_addrs', meet_id[p])
             /\ AudioAddr(p) \in VideoPeers(meet_audio_addrs, meet_id[p])
                  => AudioAddr(p) \in VideoPeers(meet_audio_addrs', meet_id[p])
             /\ ReverseEntry(udp_to_meet', VideoAddr(p)) = ReverseEntry(udp_to_meet, VideoAddr(p))
             /\ ReverseEntry(udp_to_user', VideoAddr(p)) = ReverseEntry(udp_to_user, VideoAddr(p))]_vars

\* the participant entries alone, same IP address or not
C31_ParticipantEntriesKept ==
  [][\A c \in Conns :
       DeregisterStep(c) =>
         \A p \in Conns \ {c} :
           Registered(p) /\ ParticipantIn(meet_general_clients, meet_id[p], p)
             => ParticipantIn(meet_general_clients', meet_id[p], p)]_vars

(***************************************************************************)
(* Malformed fragment headers: c1 joins m1 and sends one frame; a sender   *)
(* at c1's video address sends, as often as it likes, fragments on that    *)
(* frame's key whose header does not fit: total 0, or an index that is not *)
(* below the total.  Time is unbounded, as for SpecLive.                   *)
(***************************************************************************)
\* line 169: the (total_parts, part_idx) pairs struct.unpack accepts that
\* no sender of whole frames produces
MalformedHeaders == {<<0, 0>>, <<2, 2>>}

NextMalformed ==
  \/ \E c \in {"c1"} : pc[c] = "new" /\ ClientConnect(c, "m1")
  \/ \E c \in {"c1"} : HandlerHandshake(c)
  \/ \E c \in {"c1"} : ClientSendFrame(c, PickledFrame)
  \/ \E d \in video_net : DropDatagram(d)
  \/ \E h \in MalformedHeaders : Resend("c1", h[1], h[2])
  \/ \E d \in video_net : VideoRecv(d)
  \/ VideoFallback
  \/ VideoRelay
  \/ Sweep
  \/ TickOn

\* the clock runs on, the listener finishes every pass and receives every
\* datagram that waits in the socket's queue, and the sweeper gets
\* reassembly_lock again and again
SpecMalformed ==
  /\ Init /\ [][NextMalformed]_vars
  /\ WF_vars(TickOn) /\ SF_vars(Sweep)
  /\ WF_vars(VideoFallback) /\ WF_vars(VideoRelay)
  /\ \A f \in 1..(MaxFrames + 1) :
       \A d \in FrameDatagrams(VideoAddr("c1"), f, PickledFrame)
                  \cup {ResentDatagram("c1", f, h[1], h[2]) : h \in MalformedHeaders} :
         SF_vars(VideoRecv(d))

\* a buffer that holds a malformed fragment: its total is 0, or it holds an
\* index that is not below its total
Poisoned(entry) ==
  entry.total = 0 \/ \E i \in DictKeys(entry.parts) : i >= entry.total

\* the buffer the datagram d would be stored in is, with d, a poisoned one
Poisons(d) == Poisoned(EntryAfterStore(video_reassembly, d, now))

\* the step in which the listener receives datagram d
ReceiveStep(d) == d \in video_net /\ d \notin video_net' /\ vl_pc = "idle"

\* a malformed fragment never makes the listener emit a payload that lacks
\* an index of 0..total-1: a pass that emits has stored every index
C32_NoIncompleteEmit ==
  [][\A d \in video_net :
       ReceiveStep(d) /\ vl_pc' # "idle" /\ vl_pkt' = d =>
         LET entry == EntryAfterStore(video_reassembly, d, now)
         IN /\ ~Poisoned(entry)
            /\ \A i \in 0..(entry.total - 1) : i \in DictKeys(entry.parts)]_vars

\* a malformed fragment does not stop the listener and leaves
\* reassembly_lock released: after the pass that received it the listener
\* is back at recvfrom, the buffer it stored the fragment in is kept, and
\* nothing is sent
C32_ListenerGoesOn ==
  [][\A d \in video_net :
       ReceiveStep(d) /\ Poisons(d) =>
         /\ vl_pc' = "idle"
         /\ video_reassembly' # video_reassembly =>
              /\ KeyOf(d) \in DOMAIN video_reassembly'
              /\ Poisoned(video_reassembly'[KeyOf(d)])
         /\ UNCHANGED video_sent]_vars

\* a poisoned buffer is removed in the end
C32_PoisonedIsRemoved ==
  \A k \in FrameKeys :
    (k \in DOMAIN video_reassembly /\ Poisoned(video_reassembly[k]))
      ~> (k \notin DOMAIN video_reassembly)

\* C32: malformed fragment headers are contained: a fragment whose index is
\* not below the buffer's total, or a first fragment with total 0, never
\* makes the listener emit a payload that lacks an index of 0..total-1,
\* never stops the listener, leaves reassembly_lock released, and the
\* buffer it is in is removed by the sweeper.
C32_MalformedContained ==
  /\ C32_NoIncompleteEmit
  /\ C32_ListenerGoesOn
  /\ C32_PoisonedIsRemoved

====
